---- MODULE Spec2Model ----
(***************************************************************************)
(* Voice-assistant backend: the tool layer (backend/api.py) on top of the  *)
(* data-access layer (backend/db_driver.py).                               *)
(*                                                                         *)
(* Every remote call of db_driver.py is a synchronous SDK call, so one     *)
(* tool invocation runs from its first statement to its return without     *)
(* yielding to the event loop: each invocation is one action.  The         *)
(* responses of the remote store and of the embedding API are inputs of    *)
(* the action.  `call` holds the last finished invocation: what it was     *)
(* given, the remote calls it made (with their responses), the log         *)
(* entries it emitted, in order, and what came back to the caller.         *)
(*                                                                         *)
(* Python values: None is PyNone, a dict is a function on its keys, a list *)
(* is a sequence, a str handed to the embedding API is a sequence of       *)
(* characters (so that strip() and replace() are computed), any other str  *)
(* is a TLA+ string.  A str the code builds with an f-string is the        *)
(* sequence of its literal pieces and interpolated values.                 *)
(***************************************************************************)
EXTENDS Integers, Sequences, FiniteSets, Bags, TLC

VARIABLES
    supabase,               \* db_driver.supabase: TRUE iff the client was created
    openai_client,          \* db_driver.openai_client: TRUE iff the client was created
    knowledge_articles,     \* bag of the rows this process inserted into 'knowledge_articles'
    interaction_summaries,  \* bag of the rows this process inserted into 'interaction_summaries'
    call,                   \* the invocation asked for, or the last one finished
    LIVEKIT_API_KEY,        \* token_service.LIVEKIT_API_KEY: os.getenv('LIVEKIT_API_KEY')
    LIVEKIT_API_SECRET,     \* token_service.LIVEKIT_API_SECRET
    http,                   \* the token request being handled, or the last one answered
    turns,                  \* tool invocations of conversational turns in flight together
    seeding                 \* populate_kb.main: its position and its counters

\* the state of the token service, a process of its own
token_service == <<LIVEKIT_API_KEY, LIVEKIT_API_SECRET, http>>

vars == <<supabase, openai_client, knowledge_articles, interaction_summaries, call,
          token_service, turns, seeding>>

(***************************************************************************)
(* Bounds and input domains                                                *)
(***************************************************************************)

\* rows inserted by one run of the model, over both tables
MaxRows == 2

\* Longest list of articles the similarity search answers with.
MaxMatches == 2

\* query_knowledge_base(query_text, top_k=3)
DefaultTopK == 3

\* 'match_threshold': 0.7, in tenths
MatchThresholdTenths == 7

PyNone == [py |-> "None"]

EmptyDict == <<>>

UserIds == {"user_a", "user_b"}

\* ctx.room: a room with a sid, or no room
Rooms == {[sid |-> "RM_1"], PyNone}

Contexts == {[participant |-> [identity |-> u], room |-> r] : u \in UserIds, r \in Rooms}

\* str(e) of an exception a remote call raises
Details == {"timed out", "permission denied"}

NUL == "\\x00"

\* texts: empty, whitespace only, plain, with a null byte inside, a null byte only
Texts == {<<>>, <<" ", " ">>, <<"k", "b">>, <<"k", NUL, "b">>, <<NUL>>}

\* summaries the model dictates: the empty one, and one with text
SummaryTexts == {"", "Customer asked about billing."}

Titles == {"How to Reset Your Password"}

\* metadata of an article: none (populate_kb.py), or extra columns
Metadatas == {PyNone, [category |-> "faq"], [title |-> "Overridden"]}

Whitespace == {" ", "\t", "\n", "\r"}

\* a None column value of a row; f"{None}" prints it as 'None'
NoneValue == "<None>"

AccountFields == {"full_name", "email", "subscription_tier"}

SampleValue(f) ==
    CASE f = "full_name" -> "Real User"
      [] f = "email" -> "real_user@example.com"
      [] f = "subscription_tier" -> "Gold Tier"
      [] OTHER -> "?"

\* the rows a lookup of uid can answer with: each selected column present
\* with a value, present with None, or (a mocked store) absent
AccountRows(uid) ==
    UNION {{[f \in S \cup {"user_id"} |->
                IF f = "user_id" THEN uid
                ELSE IF f \in N THEN NoneValue ELSE SampleValue(f)] : N \in SUBSET S}
           : S \in SUBSET AccountFields}

\* rows of match_knowledge_articles: one with title and content, one with neither
Articles ==
    {[id |-> "kb-1", title |-> "Reset Password", content |-> "Use the Forgot Password link."],
     [id |-> "kb-2"]}

RECURSIVE SeqsUpTo(_, _)
SeqsUpTo(S, n) ==
    IF n = 0 THEN {<<>>}
    ELSE LET shorter == SeqsUpTo(S, n - 1)
         IN shorter \cup {Append(s, x) : s \in {t \in shorter : Len(t) = n - 1}, x \in S}

(***************************************************************************)
(* Python helpers                                                          *)
(***************************************************************************)

\* bool(x) of a dict or None
TruthyDict(x) == x # PyNone /\ DOMAIN x # {}

\* a list held where None may be held instead
PyList(seq) == [list |-> seq]

\* bool(x) of a list or None
TruthyList(x) == x # PyNone /\ Len(x.list) > 0

\* d.get(k, default)
DictGet(d, k, default) == IF k \in DOMAIN d THEN d[k] ELSE default

\* f"{v}" of a column value
Str(v) == IF v = NoneValue THEN "None" ELSE v

\* mutant: whitespace is not stripped before the emptiness test
StripIsEmpty_never(text) == FALSE

\* text.strip() == ""
StripIsEmpty(text) == \A i \in 1..Len(text) : text[i] \in Whitespace

\* mutant: the text submitted as it came
RemoveNul_keeps(text) == text

\* text.replace("\x00", "")
RemoveNul(text) == SelectSeq(text, LAMBDA c : c # NUL)

LogEntry(logger, level, msg, args) ==
    [logger |-> logger, level |-> level, msg |-> msg, args |-> args]

\* a remote call made with the synchronous client, without await: the
\* coroutine making it does not suspend, it holds the event loop until the
\* response is there
BlockingCall(c) == c @@ [awaited |-> FALSE]

\* what a data-access function hands back: a value, or an exception
Return(val, log, remote) == [kind |-> "return", val |-> val, log |-> log, remote |-> remote]

Raise(exc, log, remote) == [kind |-> "raise", exc |-> exc, log |-> log, remote |-> remote]

\* class DBDriverError(Exception)
DBDriverError(err_msg) == [type |-> "DBDriverError", msg |-> err_msg]

\* level entries of one logger in a log
CountLog(log, logger, level) ==
    Cardinality({i \in 1..Len(log) : log[i].logger = logger /\ log[i].level = level})

(***************************************************************************)
(* Remote collaborators.  `beh` is what the remote end does with the call: *)
(* raise, or answer.                                                       *)
(***************************************************************************)

RaiseBehaviours == {[kind |-> "raise", detail |-> d] : d \in Details}

\* supabase.table('user_profiles').select(..).eq('user_id', uid).maybe_single().execute()
LookupBehaviours(uid) ==
    RaiseBehaviours \cup
    {[kind |-> "data", data |-> x] : x \in {PyNone, EmptyDict} \cup AccountRows(uid)}

\* openai_client.embeddings.create(input=.., model=..)
EmbeddingBehaviours == RaiseBehaviours \cup {[kind |-> "data"]}

\* the vector the embedding model computes for an input
EmbeddingOf(input) == [model |-> "text-embedding-3-small", vector_of |-> input]

EmbeddingsCreate(beh, input) ==
    IF beh.kind = "raise" THEN beh
    ELSE [kind |-> "data", embedding |-> EmbeddingOf(input)]

\* supabase.rpc('match_knowledge_articles', params).execute()
RpcBehaviours ==
    RaiseBehaviours \cup {[kind |-> "data", data |-> a] : a \in SeqsUpTo(Articles, MaxMatches)}

\* supabase.table(..).insert(row).execute(): raises, answers with no row,
\* or answers with the inserted row
InsertBehaviours == RaiseBehaviours \cup {[kind |-> "data", rows |-> b] : b \in BOOLEAN}

Insert(beh, row) ==
    IF beh.kind = "raise" THEN beh
    ELSE [kind |-> "data", data |-> IF beh.rows THEN <<row>> ELSE <<>>]

\* a search: the embedding call comes first, the similarity search only after
\* an embedding came back
SearchBehaviours ==
    {[embed |-> e, rpc |-> r] :
        e \in EmbeddingBehaviours \ RaiseBehaviours, r \in RpcBehaviours}
    \cup {[embed |-> e, rpc |-> [kind |-> "data", data |-> <<>>]] : e \in RaiseBehaviours}

\* an article store: the embedding call comes first, the insert only after an
\* embedding came back
StoreBehaviours ==
    {[embed |-> e, insert |-> i] :
        e \in EmbeddingBehaviours \ RaiseBehaviours, i \in InsertBehaviours}
    \cup {[embed |-> e, insert |-> [kind |-> "data", rows |-> FALSE]] : e \in RaiseBehaviours}

\* the rows an insert call left in its table
Inserted(remote, table) ==
    LET ins == SelectSeq(remote, LAMBDA c : c.api = "table.insert.execute")
    IN IF Len(ins) > 0 /\ ins[1].table = table /\ ins[1].response.kind = "data"
       THEN ins[1].response.data
       ELSE <<>>

(***************************************************************************)
(* db_driver.py                                                            *)
(***************************************************************************)

\* mutant: an uninitialized client answered like the other data-access
\* functions do, with None
AccountNotInitialized_returns_none ==
    Return(PyNone,
           <<LogEntry("db_driver", "ERROR",
                      "Supabase client not initialized. Cannot fetch user info.", EmptyDict)>>,
           <<>>)

\* if not supabase: log, raise DBDriverError
AccountNotInitialized ==
    LET err_msg == [text |-> "Supabase client not initialized. Cannot fetch user info."]
    IN Raise(DBDriverError(err_msg),
             <<LogEntry("db_driver", "ERROR", err_msg.text, EmptyDict)>>,
             <<>>)

\* mutant: the remote exception re-raised as it came (a bare `raise`)
AccountLookupFailed_reraises(user_id, e, rc) ==
    Raise([type |-> "Exception", msg |-> [text |-> "{e}", e |-> e.detail]],
          <<LogEntry("db_driver", "ERROR",
                     "Error fetching user account info for {user_id} from Supabase: {e}",
                     [user_id |-> user_id, e |-> e.detail])>>,
          rc)

\* except Exception as e: log, raise DBDriverError
AccountLookupFailed(user_id, e, rc) ==
    LET err_msg == [text |-> "Error fetching user account info for {user_id} from Supabase: {e}",
                    user_id |-> user_id, e |-> e.detail]
    IN Raise(DBDriverError(err_msg),
             <<LogEntry("db_driver", "ERROR", err_msg.text,
                        [user_id |-> user_id, e |-> e.detail])>>,
             rc)

\* mutant: an answer without a row treated as a failed lookup
AccountLookupAnswered_raises_on_no_row(user_id, data, rc) ==
    IF TruthyDict(data)
    THEN Return(data,
                <<LogEntry("db_driver", "INFO",
                           "User account info found for user_id: {user_id}",
                           [user_id |-> user_id])>>,
                rc)
    ELSE Raise(DBDriverError([text |-> "No user account info found for user_id: {user_id}",
                              user_id |-> user_id]),
               <<LogEntry("db_driver", "ERROR",
                          "No user account info found for user_id: {user_id}",
                          [user_id |-> user_id])>>,
               rc)

\* if response.data: return it, else return None
AccountLookupAnswered(user_id, data, rc) ==
    IF TruthyDict(data)
    THEN Return(data,
                <<LogEntry("db_driver", "INFO",
                           "User account info found for user_id: {user_id}",
                           [user_id |-> user_id])>>,
                rc)
    ELSE Return(PyNone,
                <<LogEntry("db_driver", "WARNING",
                           "No user account info found for user_id: {user_id}",
                           [user_id |-> user_id])>>,
                rc)

get_user_account_info_from_db(sb, user_id, beh) ==
    IF ~sb
    THEN AccountNotInitialized
    ELSE LET rc == <<BlockingCall([api |-> "table.select.eq.maybe_single.execute",
                      table |-> "user_profiles",
                      columns |-> "user_id, email, full_name, subscription_tier",
                      eq |-> <<"user_id", user_id>>,
                      response |-> beh])>>
         IN IF beh.kind = "raise"
            THEN AccountLookupFailed(user_id, beh, rc)
            ELSE AccountLookupAnswered(user_id, beh.data, rc)

\* if not openai_client: log, return None
EmbeddingNotInitialized ==
    Return(PyNone,
           <<LogEntry("db_driver", "ERROR",
                      "OpenAI client not initialized. Cannot generate embedding.",
                      EmptyDict)>>,
           <<>>)

\* mutant: the empty text reported at error level
EmbeddingTextInvalid_logs_error ==
    Return(PyNone,
           <<LogEntry("db_driver", "ERROR",
                      "generate_embedding received empty or invalid text.",
                      EmptyDict)>>,
           <<>>)

\* if not text or not text.strip(): log a warning, return None
EmbeddingTextInvalid ==
    Return(PyNone,
           <<LogEntry("db_driver", "WARNING",
                      "generate_embedding received empty or invalid text.",
                      EmptyDict)>>,
           <<>>)

generate_embedding(oc, text, beh) ==
    IF ~oc
    THEN EmbeddingNotInitialized
    ELSE IF Len(text) = 0 \/ StripIsEmpty(text)
         THEN EmbeddingTextInvalid
         ELSE LET processed_text == RemoveNul(text)
                  response == EmbeddingsCreate(beh, processed_text)
                  rc == <<BlockingCall([api |-> "embeddings.create", input |-> processed_text,
                           model |-> "text-embedding-3-small", response |-> response])>>
              IN IF response.kind = "raise"
                 THEN Return(PyNone,
                             <<LogEntry("db_driver", "ERROR",
                                        "OpenAI API error during embedding generation: {e}",
                                        [e |-> response.detail])>>,
                             rc)
                 ELSE Return(response.embedding,
                             <<LogEntry("db_driver", "INFO",
                                        "Successfully generated embedding for text: {processed_text[:50]}...",
                                        [processed_text |-> processed_text])>>,
                             rc)

\* mutant: an uninitialized client reported as get_user_account_info_from_db
\* reports it, with DBDriverError
KbNotInitialized_raises ==
    LET err_msg == [text |-> "Supabase client not initialized. Cannot query KB."]
    IN Raise(DBDriverError(err_msg),
             <<LogEntry("db_driver", "ERROR", err_msg.text, EmptyDict)>>,
             <<>>)

\* if not supabase: log, return None
KbNotInitialized ==
    Return(PyNone,
           <<LogEntry("db_driver", "ERROR",
                      "Supabase client not initialized. Cannot query KB.", EmptyDict)>>,
           <<>>)

\* mutant: a failed embedding reported with DBDriverError
KbEmbeddingFailed_raises(g) ==
    LET err_msg == [text |-> "Failed to generate embedding for KB query."]
    IN Raise(DBDriverError(err_msg),
             g.log \o <<LogEntry("db_driver", "ERROR", err_msg.text, EmptyDict)>>,
             g.remote)

\* if not query_embedding: log, return None
KbEmbeddingFailed(g) ==
    Return(PyNone,
           g.log \o
           <<LogEntry("db_driver", "ERROR",
                      "Failed to generate embedding for KB query.", EmptyDict)>>,
           g.remote)

\* mutant: a looser threshold, 0.5
MatchParams_loose(query_embedding, top_k) ==
    [query_embedding |-> query_embedding, match_count |-> top_k, match_threshold |-> 5]

\* params={'query_embedding': .., 'match_count': top_k, 'match_threshold': 0.7}
MatchParams(query_embedding, top_k) ==
    [query_embedding |-> query_embedding, match_count |-> top_k,
     match_threshold |-> MatchThresholdTenths]

\* except Exception as e: log, return None
KbRpcFailed(g, e, rc) ==
    Return(PyNone,
           g.log \o
           <<LogEntry("db_driver", "ERROR",
                      "Error querying knowledge base from Supabase: {e}",
                      [e |-> e.detail])>>,
           g.remote \o rc)

\* if response.data: return it, else return None
KbRpcAnswered(g, query_text, data, rc) ==
    IF Len(data) > 0
    THEN Return(PyList(data),
                g.log \o
                <<LogEntry("db_driver", "INFO",
                           "Found {len(response.data)} relevant articles for query: {query_text[:50]}...",
                           [n |-> Len(data), query_text |-> query_text])>>,
                g.remote \o rc)
    ELSE Return(PyNone,
                g.log \o
                <<LogEntry("db_driver", "INFO",
                           "No relevant articles found for query: {query_text[:50]}...",
                           [query_text |-> query_text])>>,
                g.remote \o rc)

query_knowledge_base(sb, oc, query_text, top_k, ebeh, rbeh) ==
    IF ~sb
    THEN KbNotInitialized
    ELSE LET g == generate_embedding(oc, query_text, ebeh)
             query_embedding == g.val
         IN IF query_embedding = PyNone
            THEN KbEmbeddingFailed(g)
            ELSE LET rc == <<BlockingCall([api |-> "rpc.execute", fn |-> "match_knowledge_articles",
                              params |-> MatchParams(query_embedding, top_k),
                              response |-> rbeh])>>
                 IN IF rbeh.kind = "raise"
                    THEN KbRpcFailed(g, rbeh, rc)
                    ELSE KbRpcAnswered(g, query_text, rbeh.data, rc)

\* article_data.update(metadata)
DictUpdate(d, m) ==
    [k \in DOMAIN d \cup DOMAIN m |-> IF k \in DOMAIN m THEN m[k] ELSE d[k]]

\* if not supabase: log, return False
StoreNotInitialized ==
    Return(FALSE,
           <<LogEntry("db_driver", "ERROR",
                      "Supabase client not initialized. Cannot store KB article.",
                      EmptyDict)>>,
           <<>>)

\* mutant: the article inserted without its embedding
StoreEmbeddingFailed_inserts_anyway(g, title) ==
    Return(FALSE,
           g.log \o
           <<LogEntry("db_driver", "ERROR",
                      "Failed to generate embedding for KB article: {title}",
                      [title |-> title])>>,
           g.remote \o
           <<[api |-> "table.insert.execute", table |-> "knowledge_articles",
              row |-> [title |-> title],
              response |-> [kind |-> "data", data |-> <<>>]]>>)

\* if not embedding: log, return False
StoreEmbeddingFailed(g, title) ==
    Return(FALSE,
           g.log \o
           <<LogEntry("db_driver", "ERROR",
                      "Failed to generate embedding for KB article: {title}",
                      [title |-> title])>>,
           g.remote)

\* mutant: the exception of the insert let through
StoreInsertFailed_raises(g, title, e, rc) ==
    Raise([type |-> "Exception", msg |-> [text |-> "{e}", e |-> e.detail]],
          g.log, g.remote \o rc)

\* except Exception as e: log, return False
StoreInsertFailed(g, title, e, rc) ==
    Return(FALSE,
           g.log \o
           <<LogEntry("db_driver", "ERROR",
                      "Error storing KB article '{title}' to Supabase: {e}",
                      [title |-> title, e |-> e.detail])>>,
           g.remote \o rc)

\* if response.data: return True, else log and return False
StoreInsertAnswered(g, title, data, rc) ==
    IF Len(data) > 0
    THEN Return(TRUE,
                g.log \o
                <<LogEntry("db_driver", "INFO",
                           "Successfully stored KB article: {title}",
                           [title |-> title])>>,
                g.remote \o rc)
    ELSE Return(FALSE,
                g.log \o
                <<LogEntry("db_driver", "ERROR",
                           "Failed to store KB article '{title}'. Response: {response}",
                           [title |-> title])>>,
                g.remote \o rc)

store_knowledge_base_article(sb, oc, title, content, metadata, ebeh, ibeh) ==
    IF ~sb
    THEN StoreNotInitialized
    ELSE LET g == generate_embedding(oc, content, ebeh)
             embedding == g.val
         IN IF embedding = PyNone
            THEN StoreEmbeddingFailed(g, title)
            ELSE LET base == [title |-> title, content |-> content, embedding |-> embedding]
                     article_data == IF TruthyDict(metadata) THEN DictUpdate(base, metadata)
                                     ELSE base
                     response == Insert(ibeh, article_data)
                     rc == <<BlockingCall([api |-> "table.insert.execute", table |-> "knowledge_articles",
                              row |-> article_data, response |-> response])>>
                 IN IF response.kind = "raise"
                    THEN StoreInsertFailed(g, title, response, rc)
                    ELSE StoreInsertAnswered(g, title, response.data, rc)

\* if not supabase: log, return False
SaveNotInitialized ==
    Return(FALSE,
           <<LogEntry("db_driver", "ERROR",
                      "Supabase client not initialized. Cannot save summary.", EmptyDict)>>,
           <<>>)

\* mutant: the insert tried a second time after it raised
SaveInsertFailed_retries(user_id, e, rc) ==
    Return(FALSE,
           <<LogEntry("db_driver", "ERROR",
                      "Error saving interaction summary for {user_id} to Supabase: {e}",
                      [user_id |-> user_id, e |-> e.detail])>>,
           rc \o rc)

\* except Exception as e: log, return False
SaveInsertFailed(user_id, e, rc) ==
    Return(FALSE,
           <<LogEntry("db_driver", "ERROR",
                      "Error saving interaction summary for {user_id} to Supabase: {e}",
                      [user_id |-> user_id, e |-> e.detail])>>,
           rc)

\* mutant: an insert that returned nothing taken for a saved summary
SaveInsertAnswered_always_true(user_id, session_id, data, rc) ==
    Return(TRUE,
           <<LogEntry("db_driver", "INFO",
                      "Interaction summary saved for user_id: {user_id}, session_id: {session_id}",
                      [user_id |-> user_id, session_id |-> session_id])>>,
           rc)

\* if response.data: return True, else log and return False
SaveInsertAnswered(user_id, session_id, data, rc) ==
    IF Len(data) > 0
    THEN Return(TRUE,
                <<LogEntry("db_driver", "INFO",
                           "Interaction summary saved for user_id: {user_id}, session_id: {session_id}",
                           [user_id |-> user_id, session_id |-> session_id])>>,
                rc)
    ELSE Return(FALSE,
                <<LogEntry("db_driver", "ERROR",
                           "Failed to save interaction summary for user_id {user_id}. Response: {response}",
                           [user_id |-> user_id])>>,
                rc)

save_interaction_summary(sb, user_id, session_id, summary_text, ibeh) ==
    IF ~sb
    THEN SaveNotInitialized
    ELSE LET row == [user_id |-> user_id, session_id |-> session_id, summary |-> summary_text]
             response == Insert(ibeh, row)
             rc == <<BlockingCall([api |-> "table.insert.execute", table |-> "interaction_summaries",
                      row |-> row, response |-> response])>>
         IN IF response.kind = "raise"
            THEN SaveInsertFailed(user_id, response, rc)
            ELSE SaveInsertAnswered(user_id, session_id, response.data, rc)

(***************************************************************************)
(* api.py                                                                  *)
(***************************************************************************)

\* what a tool invocation ends with: a str handed to the agent, or an
\* exception that leaves the tool
ToolReturn(ret, log, d) ==
    [ended |-> "return", ret |-> ret, log |-> log, remote |-> d.remote, driver |-> d]

ToolRaise(exc, log, d) ==
    [ended |-> "raise", exc |-> exc, log |-> log, remote |-> d.remote, driver |-> d]

\* mutant: the Email line put before the Name line
AccountFoundText_email_first(user_id, account_info) ==
    <<"Okay, I found these details for user ", user_id, ":", "\n",
      "Email: ", Str(DictGet(account_info, "email", "N/A")), "\n",
      "Name: ", Str(DictGet(account_info, "full_name", "N/A")), "\n",
      "Subscription: ", Str(DictGet(account_info, "subscription_tier", "N/A"))>>

\* f"Okay, I found these details for user {user_id}:\nName: ..\nEmail: ..\nSubscription: .."

AccountFoundText(user_id, account_info) ==
    <<"Okay, I found these details for user ", user_id, ":", "\n",
      "Name: ", Str(DictGet(account_info, "full_name", "N/A")), "\n",
      "Email: ", Str(DictGet(account_info, "email", "N/A")), "\n",
      "Subscription: ", Str(DictGet(account_info, "subscription_tier", "N/A"))>>

AccountNotFoundText(user_id) ==
    <<"I couldn't find any account details for user ID: ", user_id,
      ". Please ensure the ID is correct or if you need to register.">>

\* mutant: the exception's text put into the answer
AccountErrorText_with_detail(user_id, e) ==
    <<"Sorry, I encountered an issue trying to retrieve account details for user ID: ",
      user_id, ". Error: ",
      IF "e" \in DOMAIN e.msg THEN e.msg.e ELSE e.msg.text,
      ". Please try again later.">>

\* the except DBDriverError branch's answer; e is not used

AccountErrorText(user_id, e) ==
    <<"Sorry, I encountered an issue trying to retrieve account details for user ID: ",
      user_id, ". Please try again later.">>

get_user_account_info(sb, ctx, beh) ==
    LET user_id == ctx.participant.identity
        log0 == <<LogEntry("api", "INFO",
                           "Attempting to get user account info for participant: {user_id}",
                           [user_id |-> user_id])>>
        d == get_user_account_info_from_db(sb, user_id, beh)
    IN IF d.kind = "raise"
       THEN IF d.exc.type = "DBDriverError"
            THEN ToolReturn(AccountErrorText(user_id, d.exc),
                            log0 \o d.log \o
                            <<LogEntry("api", "ERROR",
                                       "Failed to retrieve account details for {user_id} from DB driver. Error: {e}",
                                       [user_id |-> user_id, e |-> d.exc.msg])>>,
                            d)
            ELSE ToolRaise(d.exc, log0 \o d.log, d)
       ELSE IF TruthyDict(d.val)
            THEN ToolReturn(AccountFoundText(user_id, d.val),
                            log0 \o d.log \o
                            <<LogEntry("api", "INFO",
                                       "Successfully retrieved account details for user {user_id}.",
                                       [user_id |-> user_id])>>,
                            d)
            ELSE ToolReturn(AccountNotFoundText(user_id),
                            log0 \o d.log \o
                            <<LogEntry("api", "WARNING",
                                       "No account details found in DB for user ID: {user_id}",
                                       [user_id |-> user_id])>>,
                            d)

KbNotFoundText ==
    <<"I couldn't find specific information about that in our knowledge base. Could you try rephrasing, or is there something else I can help with?">>

KbErrorText(e) ==
    <<"Sorry, I encountered an issue trying to search our knowledge base. Please try again later.">>

\* f"Title: {title}\nContent: {content}"
ArticleBlock(article) ==
    <<"Title: ", DictGet(article, "title", "N/A"), "\n",
      "Content: ", DictGet(article, "content", "No content available.")>>

Separator == "\n\n---\n\n"

\* sep.join(blocks)
RECURSIVE Join(_, _)
Join(blocks, sep) ==
    IF Len(blocks) = 0 THEN <<>>
    ELSE IF Len(blocks) = 1 THEN blocks[1]
    ELSE blocks[1] \o <<sep>> \o Join(Tail(blocks), sep)

KbSingleText(articles) ==
    <<"I found this in our knowledge base:\n\n">> \o ArticleBlock(articles[1])

\* mutant: the articles listed last to first
KbMultiText_reversed(articles) ==
    <<"Here's what I found in our knowledge base related to your query:\n\n">> \o
    Join([i \in 1..Len(articles) |-> ArticleBlock(articles[Len(articles) + 1 - i])],
         Separator)

KbMultiText(articles) ==
    <<"Here's what I found in our knowledge base related to your query:\n\n">> \o
    Join([i \in 1..Len(articles) |-> ArticleBlock(articles[i])], Separator)

\* mutant: the miss logged at info level
KbNotFound_logs_info(user_id, query, log0, d) ==
    ToolReturn(KbNotFoundText,
               log0 \o d.log \o
               <<LogEntry("api", "INFO",
                          "No KB articles found for query: '{query}'. User: {user_id}",
                          [user_id |-> user_id, query |-> query])>>,
               d)

\* if not articles: one warning, the rephrase suggestion
KbNotFound(user_id, query, log0, d) ==
    ToolReturn(KbNotFoundText,
               log0 \o d.log \o
               <<LogEntry("api", "WARNING",
                          "No KB articles found for query: '{query}'. User: {user_id}",
                          [user_id |-> user_id, query |-> query])>>,
               d)

answer_from_company_kb(sb, oc, ctx, query, ebeh, rbeh) ==
    LET user_id == ctx.participant.identity
        log0 == <<LogEntry("api", "INFO",
                           "Attempting to answer from KB. User: {user_id}, Query: '{query}'",
                           [user_id |-> user_id, query |-> query])>>
        d == query_knowledge_base(sb, oc, query, DefaultTopK, ebeh, rbeh)
    IN IF d.kind = "raise"
       THEN IF d.exc.type = "DBDriverError"
            THEN ToolReturn(KbErrorText(d.exc),
                            log0 \o d.log \o
                            <<LogEntry("api", "ERROR",
                                       "Database error during KB query for User: {user_id}, Query: '{query}'. Error: {e}",
                                       [user_id |-> user_id, query |-> query, e |-> d.exc.msg])>>,
                            d)
            ELSE ToolRaise(d.exc, log0 \o d.log, d)
       ELSE IF ~TruthyList(d.val)
            THEN KbNotFound(user_id, query, log0, d)
            ELSE IF Len(d.val.list) = 1
                 THEN ToolReturn(KbSingleText(d.val.list),
                                 log0 \o d.log \o
                                 <<LogEntry("api", "INFO",
                                            "Successfully found 1 article for query: '{query}'. User: {user_id}",
                                            [user_id |-> user_id, query |-> query])>>,
                                 d)
                 ELSE ToolReturn(KbMultiText(d.val.list),
                                 log0 \o d.log \o
                                 <<LogEntry("api", "INFO",
                                            "Successfully found {len(articles)} articles for query: '{query}'. User: {user_id}",
                                            [user_id |-> user_id, query |-> query,
                                             n |-> Len(d.val.list)])>>,
                                 d)

SummarySavedText == <<"Okay, I've made a note of that for next time.">>

SummarySaveFailedText ==
    <<"I tried to save a note of our conversation, but there was an issue. Please try again later if it's important.">>

SummaryErrorText(e) ==
    <<"Sorry, I encountered a system issue while trying to save our conversation summary. Please try again later.">>

\* mutant: the session of the room ignored
SessionId_always_unknown(ctx) == "unknown_session"

\* ctx.room.sid if ctx.room else "unknown_session"
SessionId(ctx) == IF ctx.room # PyNone THEN ctx.room.sid ELSE "unknown_session"

summarize_interaction_for_next_session(sb, ctx, interaction_summary, ibeh) ==
    LET user_id == ctx.participant.identity
        session_id == SessionId(ctx)
        ids == [user_id |-> user_id, session_id |-> session_id]
        log0 == <<LogEntry("api", "INFO",
                           "Attempting to save interaction summary for User: {user_id}, Session: {session_id}. Summary: '{interaction_summary}'",
                           [user_id |-> user_id, session_id |-> session_id,
                            interaction_summary |-> interaction_summary])>>
        d == save_interaction_summary(sb, user_id, session_id, interaction_summary, ibeh)
    IN IF d.kind = "raise"
       THEN IF d.exc.type = "DBDriverError"
            THEN ToolReturn(SummaryErrorText(d.exc),
                            log0 \o d.log \o
                            <<LogEntry("api", "ERROR",
                                       "Database error while saving interaction summary for User: {user_id}, Session: {session_id}. Error: {e}",
                                       [user_id |-> user_id, session_id |-> session_id,
                                        e |-> d.exc.msg])>>,
                            d)
            ELSE ToolRaise(d.exc, log0 \o d.log, d)
       ELSE IF d.val
            THEN ToolReturn(SummarySavedText,
                            log0 \o d.log \o
                            <<LogEntry("api", "INFO",
                                       "Successfully saved interaction summary for User: {user_id}, Session: {session_id}",
                                       ids)>>,
                            d)
            ELSE ToolReturn(SummarySaveFailedText,
                            log0 \o d.log \o
                            <<LogEntry("api", "WARNING",
                                       "Failed to save interaction summary to DB (db_driver returned False) for User: {user_id}, Session: {session_id}",
                                       ids)>>,
                            d)

(***************************************************************************)
(* The process.  The agent (or populate_kb.main, for the article store)    *)
(* asks for an operation with its arguments; the operation then runs to    *)
(* its return in one step, with the remote ends answering as they choose.  *)
(***************************************************************************)

\* the tools api.py gives to the agent
ToolOps ==
    {"get_user_account_info", "answer_from_company_kb",
     "summarize_interaction_for_next_session"}

NoCall == [state |-> "idle"]

\* token_service.py is not imported by the agent process
NoRequest == [state |-> "idle"]

\* two conversational turns that may each have a tool invocation in flight
TurnIds == {"turn_a", "turn_b"}

NoTurns == [t \in TurnIds |-> NoCall]

\* populate_kb.main is not running
NotSeeding == [state |-> "idle"]

Pending(op, ctx, args) == [state |-> "pending", op |-> op, ctx |-> ctx, args |-> args]

Finished(c, r) ==
    [state |-> "done", op |-> c.op, ctx |-> c.ctx, args |-> c.args, result |-> r]

Rows == BagCardinality(knowledge_articles) + BagCardinality(interaction_summaries)

\* mutant: a row equal to a stored one is not stored again
AfterInserts_dedup(bag, remote, table) ==
    LET rows == Inserted(remote, table)
    IN IF Len(rows) = 0 \/ BagIn(rows[1], bag) THEN bag ELSE bag (+) SetToBag({rows[1]})

\* the table after the insert calls of `remote`
AfterInserts(bag, remote, table) ==
    LET rows == Inserted(remote, table)
    IN IF Len(rows) = 0 THEN bag ELSE bag (+) SetToBag({rows[1]})

\* module import: each client is created, or left None when its
\* configuration is missing or create_client / OpenAI() raises
Init ==
    /\ supabase \in BOOLEAN
    /\ openai_client \in BOOLEAN
    /\ knowledge_articles = EmptyBag
    /\ interaction_summaries = EmptyBag
    /\ call = NoCall
    /\ LIVEKIT_API_KEY = NoneValue
    /\ LIVEKIT_API_SECRET = NoneValue
    /\ http = NoRequest
    /\ turns = NoTurns
    /\ seeding = NotSeeding

InvokeGetUserAccountInfo ==
    /\ call.state # "pending"
    /\ \E ctx \in Contexts :
           call' = Pending("get_user_account_info", ctx, EmptyDict)
    /\ UNCHANGED <<supabase, openai_client, knowledge_articles, interaction_summaries,
                 token_service, turns, seeding>>

InvokeAnswerFromCompanyKb ==
    /\ call.state # "pending"
    /\ \E ctx \in Contexts, query \in Texts :
           call' = Pending("answer_from_company_kb", ctx, [query |-> query])
    /\ UNCHANGED <<supabase, openai_client, knowledge_articles, interaction_summaries,
                 token_service, turns, seeding>>

InvokeSummarizeInteraction ==
    /\ call.state # "pending"
    /\ Rows < MaxRows
    /\ \E ctx \in Contexts, interaction_summary \in SummaryTexts :
           call' = Pending("summarize_interaction_for_next_session", ctx,
                           [interaction_summary |-> interaction_summary])
    /\ UNCHANGED <<supabase, openai_client, knowledge_articles, interaction_summaries,
                 token_service, turns, seeding>>

\* populate_kb.py: store_knowledge_base_article(title=title, content=content)
InvokeStoreKnowledgeBaseArticle ==
    /\ call.state # "pending"
    /\ Rows < MaxRows
    /\ \E title \in Titles, content \in Texts, metadata \in Metadatas :
           call' = Pending("store_knowledge_base_article", PyNone,
                           [title |-> title, content |-> content, metadata |-> metadata])
    /\ UNCHANGED <<supabase, openai_client, knowledge_articles, interaction_summaries,
                 token_service, turns, seeding>>

\* a direct call of db_driver.generate_embedding(text)
InvokeGenerateEmbedding ==
    /\ call.state # "pending"
    /\ \E text \in Texts :
           call' = Pending("generate_embedding", PyNone, [text |-> text])
    /\ UNCHANGED <<supabase, openai_client, knowledge_articles, interaction_summaries,
                 token_service, turns, seeding>>

GetUserAccountInfo ==
    /\ call.state = "pending"
    /\ call.op = "get_user_account_info"
    /\ \E beh \in LookupBehaviours(call.ctx.participant.identity) :
           call' = Finished(call, get_user_account_info(supabase, call.ctx, beh))
    /\ UNCHANGED <<supabase, openai_client, knowledge_articles, interaction_summaries,
                 token_service, turns, seeding>>

AnswerFromCompanyKb ==
    /\ call.state = "pending"
    /\ call.op = "answer_from_company_kb"
    /\ \E env \in SearchBehaviours :
           call' = Finished(call, answer_from_company_kb(supabase, openai_client, call.ctx,
                                                         call.args.query, env.embed, env.rpc))
    /\ UNCHANGED <<supabase, openai_client, knowledge_articles, interaction_summaries,
                 token_service, turns, seeding>>

\* mutant: the store client dropped after an insert that raised
SummarizeInteraction_drops_client ==
    /\ call.state = "pending"
    /\ call.op = "summarize_interaction_for_next_session"
    /\ \E ibeh \in InsertBehaviours :
           LET r == summarize_interaction_for_next_session(
                        supabase, call.ctx, call.args.interaction_summary, ibeh)
           IN /\ call' = Finished(call, r)
              /\ interaction_summaries' =
                     AfterInserts(interaction_summaries, r.remote, "interaction_summaries")
              /\ supabase' = (supabase /\ ibeh.kind # "raise")
    /\ UNCHANGED <<openai_client, knowledge_articles, token_service, turns, seeding>>

SummarizeInteraction ==
    /\ call.state = "pending"
    /\ call.op = "summarize_interaction_for_next_session"
    /\ \E ibeh \in InsertBehaviours :
           LET r == summarize_interaction_for_next_session(
                        supabase, call.ctx, call.args.interaction_summary, ibeh)
           IN /\ call' = Finished(call, r)
              /\ interaction_summaries' =
                     AfterInserts(interaction_summaries, r.remote, "interaction_summaries")
    /\ UNCHANGED <<supabase, openai_client, knowledge_articles, token_service, turns, seeding>>

StoreKnowledgeBaseArticle ==
    /\ call.state = "pending"
    /\ call.op = "store_knowledge_base_article"
    /\ \E env \in StoreBehaviours :
           LET d == store_knowledge_base_article(
                        supabase, openai_client, call.args.title, call.args.content,
                        call.args.metadata, env.embed, env.insert)
           IN /\ call' = Finished(call, d)
              /\ knowledge_articles' =
                     AfterInserts(knowledge_articles, d.remote, "knowledge_articles")
    /\ UNCHANGED <<supabase, openai_client, interaction_summaries, token_service, turns, seeding>>

GenerateEmbedding ==
    /\ call.state = "pending"
    /\ call.op = "generate_embedding"
    /\ \E beh \in EmbeddingBehaviours :
           call' = Finished(call, generate_embedding(openai_client, call.args.text, beh))
    /\ UNCHANGED <<supabase, openai_client, knowledge_articles, interaction_summaries,
                 token_service, turns, seeding>>

Next ==
    \/ InvokeGetUserAccountInfo
    \/ InvokeAnswerFromCompanyKb
    \/ InvokeSummarizeInteraction
    \/ InvokeStoreKnowledgeBaseArticle
    \/ InvokeGenerateEmbedding
    \/ GetUserAccountInfo
    \/ AnswerFromCompanyKb
    \/ SummarizeInteraction
    \/ StoreKnowledgeBaseArticle
    \/ GenerateEmbedding

Spec == Init /\ [][Next]_vars

(***************************************************************************)
(* token_service.py: POST /generate-livekit-token.  A request is received, *)
(* the dependency verify_firebase_token runs, and, if it returned, the     *)
(* endpoint function runs; an HTTPException raised by either becomes the   *)
(* response.  What auth.verify_id_token and AccessToken.to_jwt do is an    *)
(* input of the step that calls them.                                      *)
(***************************************************************************)

\* os.getenv(..): None, an empty value, or a value
ApiKeys == {NoneValue, "", "devkey"}

ApiSecrets == {NoneValue, "", "secret"}

\* not x, of a str or None
Falsy(x) == x \in {NoneValue, ""}

IdTokens == {"", "id-token-1"}

RoomNames == {"", "room-1", "room-2"}

\* class TokenRequest(BaseModel)
TokenRequests == [firebase_id_token : IdTokens, room_name : RoomNames]

\* decoded tokens: 'uid' and 'name' each absent, empty or with a value
DecodedTokens ==
    UNION {[S -> {"", "v"}] : S \in SUBSET {"uid", "name"}}

ClaimValue(k, v) == IF v = "" THEN "" ELSE IF k = "uid" THEN "uid-1" ELSE "Alice"

Decoded(d) == [k \in DOMAIN d |-> ClaimValue(k, d[k])]

\* auth.verify_id_token(..): the decoded token, InvalidIdTokenError or one of
\* its subclasses, or another exception
VerifyBehaviours ==
    {[kind |-> "decoded", claims |-> Decoded(d)] : d \in DecodedTokens}
    \cup {[kind |-> "raise", type |-> t, detail |-> d] :
             t \in {"InvalidIdTokenError", "ExpiredIdTokenError", "ValueError"},
             d \in Details}

\* the classes `except firebase_admin.auth.InvalidIdTokenError` catches
InvalidIdTokenErrors == {"InvalidIdTokenError", "ExpiredIdTokenError", "RevokedIdTokenError"}

\* AccessToken.to_jwt(): the signed token, or an exception
SignBehaviours == RaiseBehaviours \cup {[kind |-> "signed"]}

HTTPException(status_code, detail) ==
    [type |-> "HTTPException", status_code |-> status_code, detail |-> detail]

\* mutant: an invalid token reported like any other verification failure
InvalidIdToken_as_server_error(e) ==
    [kind |-> "raise",
     exc |-> HTTPException(500, <<"Error verifying Firebase ID token: ", e.detail>>),
     out |-> <<[text |-> "Error verifying Firebase ID token: {e}", e |-> e.detail]>>]

\* except firebase_admin.auth.InvalidIdTokenError: print, raise 401
InvalidIdToken(e) ==
    [kind |-> "raise",
     exc |-> HTTPException(401, <<"Invalid Firebase ID token">>),
     out |-> <<[text |-> "Invalid Firebase ID token: {e}", e |-> e.detail]>>]

\* except Exception: print, raise 500
VerificationError(e) ==
    [kind |-> "raise",
     exc |-> HTTPException(500, <<"Error verifying Firebase ID token: ", e.detail>>),
     out |-> <<[text |-> "Error verifying Firebase ID token: {e}", e |-> e.detail]>>]

verify_firebase_token(token_request, beh) ==
    IF beh.kind = "decoded"
    THEN [kind |-> "return", val |-> beh.claims, out |-> <<>>]
    ELSE IF beh.type \in InvalidIdTokenErrors
         THEN InvalidIdToken(beh)
         ELSE VerificationError(beh)

\* what the endpoint function ends with: steps are the checks it went
\* through, signed the tokens to_jwt() produced
EndpointRaise(exc, out, steps) ==
    [kind |-> "raise", exc |-> exc, out |-> out, steps |-> steps, signed |-> <<>>]

\* mutant: the request let through to the uid check and the signing
KeysNotConfigured_not_checked ==
    EndpointRaise(HTTPException(400, <<"UID not found in Firebase token.">>),
                  <<>>, <<"keys", "uid">>)

\* if not LIVEKIT_API_KEY or not LIVEKIT_API_SECRET: raise 500
KeysNotConfigured ==
    EndpointRaise(HTTPException(500, <<"LiveKit API key/secret not configured on server.">>),
                  <<>>, <<"keys">>)

\* mutant: a token without uid reported as a server error
UidNotFound_server_error ==
    EndpointRaise(HTTPException(500, <<"UID not found in Firebase token.">>),
                  <<>>, <<"keys", "uid">>)

\* if not firebase_uid: raise 400
UidNotFound ==
    EndpointRaise(HTTPException(400, <<"UID not found in Firebase token.">>),
                  <<>>, <<"keys", "uid">>)

\* mutant: a listen-only grant
VideoGrants_no_publish(room_name) ==
    [room_join |-> TRUE, room |-> room_name, can_publish |-> FALSE, can_subscribe |-> TRUE]

\* VideoGrants(room_join=True, room=.., can_publish=True, can_subscribe=True)
VideoGrants(room_name) ==
    [room_join |-> TRUE, room |-> room_name, can_publish |-> TRUE, can_subscribe |-> TRUE]

\* AccessToken(api_key, api_secret).with_identity(..).with_name(..).with_grants(..).to_jwt()
ToJwt(api_key, api_secret, identity, name, grants) ==
    [api_key |-> api_key, signed_with |-> api_secret,
     identity |-> identity, name |-> name, grants |-> grants]

\* except Exception as e: print, raise 500
SigningFailed(e) ==
    EndpointRaise(HTTPException(500, <<"Could not generate LiveKit token: ", e.detail>>),
                  <<[text |-> "Error generating LiveKit token: {e}", e |-> e.detail]>>,
                  <<"keys", "uid", "sign">>)

\* class TokenResponse(BaseModel)
TokenResponse(livekit_token, user_id) ==
    [livekit_token |-> livekit_token, user_id |-> user_id]

\* mutant: the uid looked at before the signing keys
generate_livekit_token_endpoint_uid_first(api_key, api_secret, token_request, decoded_firebase_token, sbeh) ==
    LET firebase_uid == DictGet(decoded_firebase_token, "uid", NoneValue)
        name == DictGet(decoded_firebase_token, "name", NoneValue)
        participant_name == IF Falsy(name) THEN firebase_uid ELSE name
    IN IF Falsy(firebase_uid)
       THEN UidNotFound
       ELSE IF Falsy(api_key) \/ Falsy(api_secret)
            THEN KeysNotConfigured
            ELSE IF sbeh.kind = "raise"
                 THEN SigningFailed(sbeh)
                 ELSE LET jwt_string == ToJwt(api_key, api_secret, firebase_uid, participant_name,
                                              VideoGrants(token_request.room_name))
                      IN [kind |-> "return",
                          val |-> TokenResponse(jwt_string, firebase_uid),
                          out |-> <<>>,
                          steps |-> <<"uid", "keys", "sign">>,
                          signed |-> <<jwt_string>>]

generate_livekit_token_endpoint(api_key, api_secret, token_request, decoded_firebase_token, sbeh) ==
    IF Falsy(api_key) \/ Falsy(api_secret)
    THEN KeysNotConfigured
    ELSE LET firebase_uid == DictGet(decoded_firebase_token, "uid", NoneValue)
             name == DictGet(decoded_firebase_token, "name", NoneValue)
             participant_name == IF Falsy(name) THEN firebase_uid ELSE name
         IN IF Falsy(firebase_uid)
            THEN UidNotFound
            ELSE IF sbeh.kind = "raise"
                 THEN SigningFailed(sbeh)
                 ELSE LET video_grants_obj == VideoGrants(token_request.room_name)
                          jwt_string == ToJwt(api_key, api_secret, firebase_uid,
                                              participant_name, video_grants_obj)
                      IN [kind |-> "return",
                          val |-> TokenResponse(jwt_string, firebase_uid),
                          out |-> <<[text |-> "Generated LiveKit token for user {firebase_uid} for room {token_request.room_name}",
                                     firebase_uid |-> firebase_uid,
                                     room_name |-> token_request.room_name]>>,
                          steps |-> <<"keys", "uid", "sign">>,
                          signed |-> <<jwt_string>>]

\* the response FastAPI makes of an HTTPException
ErrorResponse(exc) == [status_code |-> exc.status_code, body |-> [detail |-> exc.detail]]

\* the response FastAPI makes of the returned TokenResponse
OkResponse(val) == [status_code |-> 200, body |-> val]

Responded(token_request, verification, response, signed, out, steps) ==
    [state |-> "responded", token_request |-> token_request,
     verification |-> verification, response |-> response,
     signed |-> signed, out |-> out, steps |-> steps]

\* module import of token_service.py: the signing key pair is read from
\* the environment; the agent's clients are not part of this process
TokenInit ==
    /\ supabase = FALSE
    /\ openai_client = FALSE
    /\ knowledge_articles = EmptyBag
    /\ interaction_summaries = EmptyBag
    /\ call = NoCall
    /\ LIVEKIT_API_KEY \in ApiKeys
    /\ LIVEKIT_API_SECRET \in ApiSecrets
    /\ http = NoRequest
    /\ turns = NoTurns
    /\ seeding = NotSeeding

\* a POST /generate-livekit-token arrives with its body
PostGenerateLivekitToken ==
    /\ http.state \in {"idle", "responded"}
    /\ \E token_request \in TokenRequests :
           http' = [state |-> "received", token_request |-> token_request]
    /\ UNCHANGED <<supabase, openai_client, knowledge_articles, interaction_summaries, call,
                   LIVEKIT_API_KEY, LIVEKIT_API_SECRET, turns, seeding>>

\* Depends(verify_firebase_token)
VerifyFirebaseToken ==
    /\ http.state = "received"
    /\ \E beh \in VerifyBehaviours :
           LET v == verify_firebase_token(http.token_request, beh)
           IN http' = IF v.kind = "raise"
                      THEN Responded(http.token_request, beh, ErrorResponse(v.exc),
                                     <<>>, v.out, <<"verify">>)
                      ELSE [state |-> "verified", token_request |-> http.token_request,
                            verification |-> beh, decoded_firebase_token |-> v.val]
    /\ UNCHANGED <<supabase, openai_client, knowledge_articles, interaction_summaries, call,
                   LIVEKIT_API_KEY, LIVEKIT_API_SECRET, turns, seeding>>

GenerateLivekitTokenEndpoint ==
    /\ http.state = "verified"
    /\ \E sbeh \in SignBehaviours :
           LET r == generate_livekit_token_endpoint(
                        LIVEKIT_API_KEY, LIVEKIT_API_SECRET, http.token_request,
                        http.decoded_firebase_token, sbeh)
           IN http' = Responded(http.token_request, http.verification,
                                IF r.kind = "raise" THEN ErrorResponse(r.exc)
                                ELSE OkResponse(r.val),
                                r.signed, r.out, <<"verify">> \o r.steps)
    /\ UNCHANGED <<supabase, openai_client, knowledge_articles, interaction_summaries, call,
                   LIVEKIT_API_KEY, LIVEKIT_API_SECRET, turns, seeding>>

TokenNext ==
    \/ PostGenerateLivekitToken
    \/ VerifyFirebaseToken
    \/ GenerateLivekitTokenEndpoint

TokenSpec == TokenInit /\ [][TokenNext]_vars

(***************************************************************************)
(* Tool invocations of two conversational turns in flight together.  Each  *)
(* turn invokes one tool; the event loop runs the invocations in either    *)
(* order, and each one runs to its return without suspending.  The tables  *)
(* of the remote store are shared by the two.                              *)
(***************************************************************************)

\* the arguments the model can give to a tool
ToolArgs(op) ==
    CASE op = "get_user_account_info" -> {EmptyDict}
      [] op = "answer_from_company_kb" -> {[query |-> q] : q \in Texts}
      [] OTHER -> {[interaction_summary |-> x] : x \in SummaryTexts}

\* what the remote ends can do during one invocation of a tool
ToolEnvs(c) ==
    CASE c.op = "get_user_account_info" ->
             {[lookup |-> b] : b \in LookupBehaviours(c.ctx.participant.identity)}
      [] c.op = "answer_from_company_kb" -> SearchBehaviours
      [] OTHER -> {[insert |-> b] : b \in InsertBehaviours}

\* the tool function of an invocation, applied
ToolResult(sb, oc, c, env) ==
    CASE c.op = "get_user_account_info" -> get_user_account_info(sb, c.ctx, env.lookup)
      [] c.op = "answer_from_company_kb" ->
             answer_from_company_kb(sb, oc, c.ctx, c.args.query, env.embed, env.rpc)
      [] OTHER ->
             summarize_interaction_for_next_session(
                 sb, c.ctx, c.args.interaction_summary, env.insert)

\* mutant: the answer of an invocation of the same tool that finished
\* earlier handed out again
TurnsAfter_shared_answer(ts, t, r) ==
    LET same == {u \in TurnIds \ {t} : ts[u].state = "done" /\ ts[u].op = ts[t].op}
    IN IF same = {} THEN [ts EXCEPT ![t] = Finished(ts[t], r)]
       ELSE LET u == CHOOSE u \in same : TRUE
            IN [ts EXCEPT ![t] = Finished(ts[t], [r EXCEPT !.ret = ts[u].result.ret])]

\* `return response`: what a tool built goes to the invocation that built it
TurnsAfter(ts, t, r) == [ts EXCEPT ![t] = Finished(ts[t], r)]

TurnsInit ==
    /\ supabase \in BOOLEAN
    /\ openai_client \in BOOLEAN
    /\ knowledge_articles = EmptyBag
    /\ interaction_summaries = EmptyBag
    /\ call = NoCall
    /\ LIVEKIT_API_KEY = NoneValue
    /\ LIVEKIT_API_SECRET = NoneValue
    /\ http = NoRequest
    /\ turns = NoTurns
    /\ seeding = NotSeeding

\* the agent calls a tool in turn t
InvokeTool(t) ==
    /\ turns[t].state = "idle"
    /\ \E op \in ToolOps, ctx \in Contexts :
           \E args \in ToolArgs(op) :
               turns' = [turns EXCEPT ![t] = Pending(op, ctx, args)]
    /\ UNCHANGED <<supabase, openai_client, knowledge_articles, interaction_summaries, call,
                   token_service, seeding>>

\* the event loop runs the invocation of turn t, from its first statement to
\* its return
RunTool(t) ==
    /\ turns[t].state = "pending"
    /\ \E env \in ToolEnvs(turns[t]) :
           LET r == ToolResult(supabase, openai_client, turns[t], env)
           IN /\ turns' = TurnsAfter(turns, t, r)
              /\ interaction_summaries' =
                     AfterInserts(interaction_summaries, r.remote, "interaction_summaries")
    /\ UNCHANGED <<supabase, openai_client, knowledge_articles, call, token_service, seeding>>

TurnsNext == \E t \in TurnIds : InvokeTool(t) \/ RunTool(t)

TurnsSpec == TurnsInit /\ [][TurnsNext]_vars

(***************************************************************************)
(* The two processes side by side.  They share nothing, so a behaviour of  *)
(* the system is taken to be a behaviour of the agent process or one of    *)
(* the token service: either one runs from a start in which the other has  *)
(* not been used.                                                          *)
(***************************************************************************)

SystemInit == Init \/ TokenInit

SystemNext ==
    \/ http = NoRequest /\ Next
    \/ call = NoCall /\ TokenNext

SystemSpec == SystemInit /\ [][SystemNext]_vars

(***************************************************************************)
(* populate_kb.py: the seeding script, a process of its own that imports   *)
(* db_driver and stores the sample articles one after the other.           *)
(***************************************************************************)

\* SAMPLE_ARTICLES; a content is one piece of text, none of them blank
SAMPLE_ARTICLES ==
    <<[title |-> "How to Reset Your Password",
       content |-> <<"If you've forgotten your password, you can reset it ...">>],
      [title |-> "Understanding Your Subscription Tiers",
       content |-> <<"We offer three subscription tiers: Basic, Premium, and Enterprise. ...">>],
      [title |-> "Integrating with Third-Party Services",
       content |-> <<"Our platform supports integration with a variety of third-party services ...">>],
      [title |-> "Troubleshooting Common Login Issues",
       content |-> <<"If you're having trouble logging in, first ensure your email and password are correct. ...">>]>>

\* what `await store_knowledge_base_article(title=title, content=content)`
\* can end with, as seen from main: the function's own results, or an
\* exception coming out of the call (main has a handler for DBDriverError
\* and one for every other Exception)
StoreOutcomes(sb, oc, title, content) ==
    {store_knowledge_base_article(sb, oc, title, content, PyNone, env.embed, env.insert) :
         env \in StoreBehaviours}
    \cup {Raise(DBDriverError(d), <<>>, <<>>) : d \in Details}
    \cup {Raise([type |-> "Exception", msg |-> d], <<>>, <<>>) : d \in Details}

\* main(), before the loop: both counters at 0
SeedingStarted ==
    [state |-> "running", i |-> 0, successful_uploads |-> 0, failed_uploads |-> 0,
     attempted |-> <<>>, log |-> <<LogEntry("populate_kb", "INFO",
                                            "Starting to populate knowledge base with {len(SAMPLE_ARTICLES)} articles...",
                                            EmptyDict)>>]

\* mutant: an exception of the call is logged but not counted
SeedingAfter_exception_not_counted(sd, title, d) ==
    LET ok == d.kind = "return" /\ d.val
        raised == d.kind = "raise"
    IN [sd EXCEPT !.i = @ + 1,
                  !.successful_uploads = IF ok THEN @ + 1 ELSE @,
                  !.failed_uploads = IF ok \/ raised THEN @ ELSE @ + 1,
                  !.attempted = Append(@, [title |-> title, ended |-> d.kind]),
                  !.log = Append(@, LogEntry("populate_kb", IF ok THEN "INFO" ELSE "ERROR",
                                             "article '{title}'", [title |-> title]))]

\* one pass of the loop body after the call ended with d: success counts as
\* successful, False, DBDriverError and any other Exception each count as
\* failed, and the loop goes on
SeedingAfter(sd, title, d) ==
    LET entry ==
            IF d.kind = "return"
            THEN IF d.val
                 THEN LogEntry("populate_kb", "INFO",
                               "Successfully stored article: '{title}'", [title |-> title])
                 ELSE LogEntry("populate_kb", "WARNING",
                               "Failed to store article (db_driver returned False): '{title}'",
                               [title |-> title])
            ELSE IF d.exc.type = "DBDriverError"
                 THEN LogEntry("populate_kb", "ERROR",
                               "DBDriverError while storing article '{title}': {e}",
                               [title |-> title, e |-> d.exc.msg])
                 ELSE LogEntry("populate_kb", "ERROR",
                               "An unexpected error occurred while storing article '{title}': {e}",
                               [title |-> title, e |-> d.exc.msg])
        ok == d.kind = "return" /\ d.val
    IN [sd EXCEPT !.i = @ + 1,
                  !.successful_uploads = IF ok THEN @ + 1 ELSE @,
                  !.failed_uploads = IF ok THEN @ ELSE @ + 1,
                  !.attempted = Append(@, [title |-> title, ended |-> d.kind]),
                  !.log = Append(@, entry)]

\* after the loop: the three closing log lines
SeedingComplete(sd) ==
    [sd EXCEPT !.state = "complete",
               !.log = @ \o
                   <<LogEntry("populate_kb", "INFO", "Knowledge base population complete.", EmptyDict),
                     LogEntry("populate_kb", "INFO", "Successfully uploaded: {successful_uploads} articles.",
                              [successful_uploads |-> sd.successful_uploads]),
                     LogEntry("populate_kb", "INFO", "Failed to upload: {failed_uploads} articles.",
                              [failed_uploads |-> sd.failed_uploads])>>]

\* module import of db_driver by the script: each client created or None
SeedInit ==
    /\ supabase \in BOOLEAN
    /\ openai_client \in BOOLEAN
    /\ knowledge_articles = EmptyBag
    /\ interaction_summaries = EmptyBag
    /\ call = NoCall
    /\ LIVEKIT_API_KEY = NoneValue
    /\ LIVEKIT_API_SECRET = NoneValue
    /\ http = NoRequest
    /\ turns = NoTurns
    /\ seeding = NotSeeding

\* asyncio.run(main())
SeedMain ==
    /\ seeding.state = "idle"
    /\ seeding' = SeedingStarted
    /\ UNCHANGED <<supabase, openai_client, knowledge_articles, interaction_summaries, call,
                   token_service, turns>>

\* for i, article_data in enumerate(SAMPLE_ARTICLES): one pass
SeedArticle ==
    /\ seeding.state = "running"
    /\ seeding.i < Len(SAMPLE_ARTICLES)
    /\ LET article_data == SAMPLE_ARTICLES[seeding.i + 1]
           title == article_data.title
           content == article_data.content
       IN \E d \in StoreOutcomes(supabase, openai_client, title, content) :
              /\ seeding' = SeedingAfter(seeding, title, d)
              /\ knowledge_articles' =
                     AfterInserts(knowledge_articles, d.remote, "knowledge_articles")
    /\ UNCHANGED <<supabase, openai_client, interaction_summaries, call, token_service, turns>>

\* the loop is exhausted: main logs the totals and returns
SeedDone ==
    /\ seeding.state = "running"
    /\ seeding.i = Len(SAMPLE_ARTICLES)
    /\ seeding' = SeedingComplete(seeding)
    /\ UNCHANGED <<supabase, openai_client, knowledge_articles, interaction_summaries, call,
                   token_service, turns>>

SeedNext ==
    \/ SeedMain
    \/ SeedArticle
    \/ SeedDone

SeedSpec == SeedInit /\ [][SeedNext]_vars

\* the script is the only task of its event loop and every remote call it
\* makes returns or raises, so main keeps taking its next step
SeedLiveSpec == SeedSpec /\ WF_vars(SeedNext)

(***************************************************************************)
(* Properties                                                              *)
(***************************************************************************)

Done(op) == call.state = "done" /\ call.op = op

\* a str: a non-empty sequence of string pieces
IsText(t) == Len(t) > 0 /\ \A i \in 1..Len(t) : t[i] \in STRING

\* the remote calls of one kind the finished invocation made, in order
RemoteCalls(api) == SelectSeq(call.result.remote, LAMBDA c : c.api = api)

\* the selected row lookup was made and raised
LookupRaised ==
    /\ Len(RemoteCalls("table.select.eq.maybe_single.execute")) = 1
    /\ RemoteCalls("table.select.eq.maybe_single.execute")[1].response.kind = "raise"

\* the lookup was made and answered without a row
LookupNoRow ==
    /\ Len(RemoteCalls("table.select.eq.maybe_single.execute")) = 1
    /\ RemoteCalls("table.select.eq.maybe_single.execute")[1].response.kind = "data"
    /\ ~TruthyDict(RemoteCalls("table.select.eq.maybe_single.execute")[1].response.data)

\* the embedding API was called and answered with a vector
EmbeddingCameBack ==
    /\ Len(RemoteCalls("embeddings.create")) = 1
    /\ RemoteCalls("embeddings.create")[1].response.kind = "data"

\* the similarity search was called and raised
RpcRaised ==
    /\ Len(RemoteCalls("rpc.execute")) = 1
    /\ RemoteCalls("rpc.execute")[1].response.kind = "raise"

\* text.split("\n") of a str whose line breaks are pieces of their own
RECURSIVE SplitLines(_)
SplitLines(t) ==
    IF \A i \in 1..Len(t) : t[i] # "\n" THEN <<t>>
    ELSE LET i == CHOOSE k \in 1..Len(t) : t[k] = "\n" /\ \A j \in 1..(k - 1) : t[j] # "\n"
         IN <<SubSeq(t, 1, i - 1)>> \o SplitLines(SubSeq(t, i + 1, Len(t)))

\* C1: every invocation of the three tools ends by returning a str to the
\* agent, whatever the remote ends did (rows, no rows, an exception) and
\* whether or not the clients were created; no exception leaves a tool.
Inv_C1_ToolsReturnText ==
    call.state = "done" /\ call.op \in ToolOps =>
        /\ call.result.ended = "return"
        /\ IsText(call.result.ret)

Wit_C1_LookupRaisedAndToolReturned ==
    /\ Done("get_user_account_info")
    /\ LookupRaised
    /\ call.result.ended = "return"

\* C2: with the client created, a lookup that the store answers without a
\* row makes get_user_account_info_from_db return None, never raise, and the
\* tool answers with the not-found message naming the identifier looked up.
Inv_C2_NoRowIsNotFound ==
    Done("get_user_account_info") /\ supabase /\ LookupNoRow =>
        /\ call.result.driver.kind = "return"
        /\ call.result.driver.val = PyNone
        /\ call.result.ended = "return"
        /\ call.result.ret =
               <<"I couldn't find any account details for user ID: ",
                 call.ctx.participant.identity,
                 ". Please ensure the ID is correct or if you need to register.">>

Wit_C2_UnknownUser ==
    /\ Done("get_user_account_info")
    /\ supabase
    /\ LookupNoRow
    /\ call.ctx.participant.identity = "user_b"
    /\ call.result.driver.val = PyNone

\* C3: get_user_account_info_from_db raises DBDriverError exactly when the
\* client was not created (and then it makes no remote call) or the remote
\* lookup raised; in both cases it logs exactly one entry, at error level,
\* before raising.
Inv_C3_DriverErrorExactlyWhen ==
    Done("get_user_account_info") =>
        LET d == call.result.driver
        IN /\ (d.kind = "raise") <=> (~supabase \/ LookupRaised)
           /\ ~supabase => d.remote = <<>>
           /\ d.kind = "raise" =>
                  /\ d.exc.type = "DBDriverError"
                  /\ Len(d.log) = 1
                  /\ CountLog(d.log, "db_driver", "ERROR") = 1

Wit_C3_NotInitializedRaises ==
    /\ Done("get_user_account_info")
    /\ ~supabase
    /\ call.result.driver.kind = "raise"
    /\ call.result.driver.remote = <<>>

\* C4: the answer of a tool on a driver error does not depend on the error's
\* text: a second run of the finished account lookup, for the same
\* participant, that also ends in a driver error (with whatever exception
\* text) gives the same answer; the text of the remote exception is in the
\* log and nowhere in the answer.  The driver-error answers of the other two
\* tools are the same for every error.
Inv_C4_ErrorAnswerIndependentOfDetail ==
    /\ \A d1, d2 \in Details :
           /\ KbErrorText(DBDriverError([text |-> d1])) =
                  KbErrorText(DBDriverError([text |-> d2]))
           /\ SummaryErrorText(DBDriverError([text |-> d1])) =
                  SummaryErrorText(DBDriverError([text |-> d2]))
    /\ Done("get_user_account_info") /\ call.result.driver.kind = "raise" =>
           /\ call.result.ended = "return"
           /\ \A beh \in LookupBehaviours(call.ctx.participant.identity) :
                  LET again == get_user_account_info(supabase, call.ctx, beh)
                  IN again.driver.kind = "raise" =>
                         again.ended = "return" /\ again.ret = call.result.ret
           /\ \A i \in 1..Len(call.result.ret) : call.result.ret[i] \notin Details
           /\ LookupRaised =>
                  \E j \in 1..Len(call.result.log) :
                      /\ call.result.log[j].logger = "db_driver"
                      /\ call.result.log[j].level = "ERROR"
                      /\ call.result.log[j].args.e =
                             RemoteCalls("table.select.eq.maybe_single.execute")[1].response.detail

Wit_C4_ErrorWithDetail ==
    /\ Done("get_user_account_info")
    /\ LookupRaised
    /\ RemoteCalls("table.select.eq.maybe_single.execute")[1].response.detail =
           "permission denied"
    /\ call.result.ended = "return"
    /\ call.result.ret =
           <<"Sorry, I encountered an issue trying to retrieve account details for user ID: ",
             call.ctx.participant.identity, ". Please try again later.">>

\* C5: when the lookup finds a record, the tool's answer is exactly four
\* lines, in this order: the header naming the user, Name, Email,
\* Subscription; a field the record does not hold is shown as N/A.
Inv_C5_FourLines ==
    Done("get_user_account_info") /\ call.result.driver.kind = "return"
        /\ call.result.driver.val # PyNone =>
        LET rec == call.result.driver.val
            Shown(k) == IF k \in DOMAIN rec THEN Str(rec[k]) ELSE "N/A"
        IN /\ call.result.ended = "return"
           /\ SplitLines(call.result.ret) =
                  << <<"Okay, I found these details for user ",
                       call.ctx.participant.identity, ":">>,
                     <<"Name: ", Shown("full_name")>>,
                     <<"Email: ", Shown("email")>>,
                     <<"Subscription: ", Shown("subscription_tier")>> >>

Wit_C5_RecordWithoutEmail ==
    /\ Done("get_user_account_info")
    /\ call.result.driver.kind = "return"
    /\ call.result.driver.val # PyNone
    /\ DOMAIN call.result.driver.val = {"user_id", "full_name", "subscription_tier"}
    /\ SplitLines(call.result.ret)[3] = <<"Email: ", "N/A">>

\* C6 (as claimed): when the similarity search raises during a search, the
\* tool answers with the generic apology and logs the error at error level,
\* without putting it into the answer.
Claim_C6_RpcFailureGetsApology ==
    Done("answer_from_company_kb") /\ RpcRaised =>
        /\ call.result.ended = "return"
        /\ call.result.ret =
               <<"Sorry, I encountered an issue trying to search our knowledge base. Please try again later.">>
        /\ CountLog(call.result.log, "api", "ERROR") = 1

\* C7 (as claimed): with the store client never created, every tool ends
\* with its driver-error answer.
Claim_C7_NotInitializedIsDriverError ==
    call.state = "done" /\ call.op \in ToolOps /\ ~supabase =>
        /\ call.result.ended = "return"
        /\ call.result.ret =
               CASE call.op = "get_user_account_info" ->
                        AccountErrorText(call.ctx.participant.identity, PyNone)
                 [] call.op = "answer_from_company_kb" -> KbErrorText(PyNone)
                 [] OTHER -> SummaryErrorText(PyNone)

\* C7 (amended): with the store client never created, no tool makes a remote
\* call; the account lookup ends with its driver-error answer, the
\* knowledge-base search with its not-found answer (the rephrase suggestion)
\* and the summary save with its save-failed answer.
Inv_C7_NotInitializedPerTool ==
    call.state = "done" /\ call.op \in ToolOps /\ ~supabase =>
        /\ call.result.ended = "return"
        /\ call.result.remote = <<>>
        /\ call.result.ret =
               CASE call.op = "get_user_account_info" ->
                        AccountErrorText(call.ctx.participant.identity, PyNone)
                 [] call.op = "answer_from_company_kb" -> KbNotFoundText
                 [] OTHER -> SummarySaveFailedText
        /\ call.op = "answer_from_company_kb" => call.result.ret # KbErrorText(PyNone)
        /\ call.op = "summarize_interaction_for_next_session" =>
               call.result.ret # SummaryErrorText(PyNone)

Wit_C7_SearchWithoutClient ==
    /\ Done("answer_from_company_kb")
    /\ ~supabase
    /\ call.result.ret = KbNotFoundText

\* C8: query_knowledge_base returns None, without raising and without the
\* similarity search, whenever the store client was not created or no
\* embedding came back for the query; without the store client it does not
\* call the embedding API either.
Inv_C8_NoResultsWithoutEmbedding ==
    Done("answer_from_company_kb") /\ (~supabase \/ ~EmbeddingCameBack) =>
        /\ call.result.driver.kind = "return"
        /\ call.result.driver.val = PyNone
        /\ Len(RemoteCalls("rpc.execute")) = 0
        /\ ~supabase => call.result.remote = <<>>

\* an article was stored, and a later search for its content, with the
\* embedding API failing, gave no results
Wit_C8_StoredThenSearchFails ==
    /\ Done("answer_from_company_kb")
    /\ supabase
    /\ \E row \in BagToSet(knowledge_articles) : row.content = call.args.query
    /\ Len(RemoteCalls("embeddings.create")) = 1
    /\ RemoteCalls("embeddings.create")[1].response.kind = "raise"
    /\ call.result.driver.kind = "return"
    /\ call.result.driver.val = PyNone

\* C9: a search with the store client created and an embedding of the query
\* makes exactly one call of match_knowledge_articles, with that embedding,
\* match_count 3 and match_threshold 0.7; a non-empty answer is returned as
\* it came, an empty one as None.
Inv_C9_OneSimilaritySearch ==
    Done("answer_from_company_kb") /\ supabase /\ EmbeddingCameBack =>
        LET rpcs == RemoteCalls("rpc.execute")
            emb == RemoteCalls("embeddings.create")[1]
        IN /\ Len(rpcs) = 1
           /\ rpcs[1].fn = "match_knowledge_articles"
           /\ emb.input = RemoveNul(call.args.query)
           /\ rpcs[1].params =
                  [query_embedding |-> emb.response.embedding,
                   match_count |-> 3, match_threshold |-> 7]
           /\ call.result.driver.kind = "return"
           /\ rpcs[1].response.kind = "data" =>
                  IF Len(rpcs[1].response.data) > 0
                  THEN call.result.driver.val = PyList(rpcs[1].response.data)
                  ELSE call.result.driver.val = PyNone

Wit_C9_TwoArticlesReturned ==
    /\ Done("answer_from_company_kb")
    /\ Len(RemoteCalls("rpc.execute")) = 1
    /\ RemoteCalls("rpc.execute")[1].response.kind = "data"
    /\ Len(RemoteCalls("rpc.execute")[1].response.data) = 2
    /\ call.result.driver.val = PyList(RemoteCalls("rpc.execute")[1].response.data)

\* C10: a search that comes back with no match makes the tool answer with
\* the rephrase suggestion, and the tool's logger writes exactly one entry
\* at warning level in that invocation.
Inv_C10_NoMatchOneWarning ==
    Done("answer_from_company_kb") /\ call.result.driver.kind = "return"
        /\ ~TruthyList(call.result.driver.val) =>
        /\ call.result.ended = "return"
        /\ call.result.ret =
               <<"I couldn't find specific information about that in our knowledge base. Could you try rephrasing, or is there something else I can help with?">>
        /\ CountLog(call.result.log, "api", "WARNING") = 1

Wit_C10_EmptyAnswer ==
    /\ Done("answer_from_company_kb")
    /\ Len(RemoteCalls("rpc.execute")) = 1
    /\ RemoteCalls("rpc.execute")[1].response.kind = "data"
    /\ RemoteCalls("rpc.execute")[1].response.data = <<>>
    /\ CountLog(call.result.log, "api", "WARNING") = 1

\* t.split(sep) of a str in which sep is a piece of its own
RECURSIVE SplitOn(_, _)
SplitOn(t, sep) ==
    IF \A i \in 1..Len(t) : t[i] # sep THEN <<t>>
    ELSE LET i == CHOOSE k \in 1..Len(t) : t[k] = sep /\ \A j \in 1..(k - 1) : t[j] # sep
         IN <<SubSeq(t, 1, i - 1)>> \o SplitOn(SubSeq(t, i + 1, Len(t)), sep)

\* the pieces of a str that are equal to p
CountPieces(t, p) == Cardinality({i \in 1..Len(t) : t[i] = p})

\* the list of articles the similarity search answered with
StoreAnswer == RemoteCalls("rpc.execute")[1].response.data

\* C11: a search the store answers with one article gives the single-result
\* header and exactly one Title/Content pair; a search answered with n >= 2
\* articles gives the multi-result header and then exactly n Title/Content
\* pairs, joined by the separator, the i-th pair being the i-th article of
\* the store's list: none dropped, duplicated or moved.
Inv_C11_PairsInStoreOrder ==
    Done("answer_from_company_kb") /\ Len(RemoteCalls("rpc.execute")) = 1
        /\ RemoteCalls("rpc.execute")[1].response.kind = "data"
        /\ Len(StoreAnswer) >= 1 =>
        LET n == Len(StoreAnswer)
            ret == call.result.ret
            Pair(a) == <<"Title: ", IF "title" \in DOMAIN a THEN a.title ELSE "N/A",
                         "\n",
                         "Content: ", IF "content" \in DOMAIN a THEN a.content
                                      ELSE "No content available.">>
            blocks == SplitOn(Tail(ret), "\n\n---\n\n")
        IN /\ call.result.ended = "return"
           /\ CountPieces(ret, "Title: ") = n
           /\ CountPieces(ret, "Content: ") = n
           /\ CountPieces(ret, "\n\n---\n\n") = n - 1
           /\ ret[1] = IF n = 1 THEN "I found this in our knowledge base:\n\n"
                       ELSE "Here's what I found in our knowledge base related to your query:\n\n"
           /\ Len(blocks) = n
           /\ \A i \in 1..n : blocks[i] = Pair(StoreAnswer[i])

\* two different articles came back, the one without a title first
Wit_C11_TwoDifferentArticles ==
    /\ Done("answer_from_company_kb")
    /\ Len(RemoteCalls("rpc.execute")) = 1
    /\ RemoteCalls("rpc.execute")[1].response.kind = "data"
    /\ Len(StoreAnswer) = 2
    /\ StoreAnswer[1].id = "kb-2"
    /\ StoreAnswer[2].id = "kb-1"
    /\ CountPieces(call.result.ret, "\n\n---\n\n") = 1

\* the text a finished invocation had embedded, if it is one that embeds
EmbeddedText ==
    CASE call.op = "generate_embedding" -> call.args.text
      [] call.op = "answer_from_company_kb" -> call.args.query
      [] OTHER -> call.args.content

EmbeddingOps ==
    {"generate_embedding", "answer_from_company_kb", "store_knowledge_base_article"}

\* "" or only blanks, tabs and line ends
IsBlank(text) == \A i \in 1..Len(text) : text[i] \in {" ", "\t", "\n", "\r"}

\* C12: for an empty or whitespace-only text, generate_embedding returns None
\* and the embedding API is not called, whether generate_embedding is called
\* directly or by the knowledge-base search or the article store.
Inv_C12_BlankTextNoCall ==
    call.state = "done" /\ call.op \in EmbeddingOps /\ IsBlank(EmbeddedText) =>
        /\ Len(RemoteCalls("embeddings.create")) = 0
        /\ call.op = "generate_embedding" =>
               /\ call.result.kind = "return"
               /\ call.result.val = PyNone
               /\ call.result.remote = <<>>

\* a whitespace-only text given to generate_embedding with the client created
Wit_C12_WhitespaceOnly ==
    /\ Done("generate_embedding")
    /\ openai_client
    /\ call.args.text = <<" ", " ">>
    /\ call.result.val = PyNone
    /\ call.result.remote = <<>>

\* C13: generate_embedding never raises; it makes at most one call of the
\* embedding API, with the text without its null bytes; it returns the vector
\* of the API's answer when the call answered, and None when the client was
\* not created (no call made) or the call raised.
Inv_C13_EmbeddingNeverRaises ==
    Done("generate_embedding") =>
        LET r == call.result
            sent == SelectSeq(call.args.text, LAMBDA c : c # "\\x00")
        IN /\ r.kind = "return"
           /\ Len(r.remote) <= 1
           /\ \A i \in 1..Len(r.remote) :
                  /\ r.remote[i].api = "embeddings.create"
                  /\ r.remote[i].input = sent
                  /\ \A j \in 1..Len(r.remote[i].input) : r.remote[i].input[j] # "\\x00"
           /\ ~openai_client => r.val = PyNone /\ r.remote = <<>>
           /\ Len(r.remote) = 1 =>
                  IF r.remote[1].response.kind = "data"
                  THEN r.val = r.remote[1].response.embedding
                  ELSE r.val = PyNone
           /\ r.val # PyNone => Len(r.remote) = 1

\* a text with a null byte inside was embedded
Wit_C13_NullByteRemoved ==
    /\ Done("generate_embedding")
    /\ call.args.text = <<"k", "\\x00", "b">>
    /\ Len(call.result.remote) = 1
    /\ call.result.remote[1].input = <<"k", "b">>
    /\ call.result.val = call.result.remote[1].response.embedding

\* C14: store_knowledge_base_article checks in a fixed order and stops at the
\* first failure: without the store client it returns False and calls
\* nothing; otherwise it embeds the content, and without an embedding it
\* returns False and attempts no insert; an insert is attempted only after an
\* embedding came back, after the embedding call, and at most once.
Inv_C14_StoreChecksInOrder ==
    Done("store_knowledge_base_article") =>
        LET r == call.result
            inserts == RemoteCalls("table.insert.execute")
            embeds == RemoteCalls("embeddings.create")
        IN /\ ~supabase => r.val = FALSE /\ r.remote = <<>>
           /\ supabase /\ openai_client /\ ~IsBlank(call.args.content) =>
                  /\ Len(embeds) = 1
                  /\ r.remote[1] = embeds[1]
                  /\ embeds[1].input =
                         SelectSeq(call.args.content, LAMBDA c : c # "\\x00")
           /\ supabase /\ ~EmbeddingCameBack => r.val = FALSE /\ Len(inserts) = 0
           /\ Len(inserts) <= 1
           /\ Len(inserts) = 1 =>
                  /\ supabase
                  /\ EmbeddingCameBack
                  /\ r.remote = <<embeds[1], inserts[1]>>
                  /\ inserts[1].table = "knowledge_articles"

\* the store client is there, the embedding API raised, nothing was inserted
Wit_C14_EmbeddingFailsNoInsert ==
    /\ Done("store_knowledge_base_article")
    /\ supabase
    /\ Len(RemoteCalls("embeddings.create")) = 1
    /\ RemoteCalls("embeddings.create")[1].response.kind = "raise"
    /\ call.result.val = FALSE
    /\ Len(RemoteCalls("table.insert.execute")) = 0

\* C15: store_knowledge_base_article returns True exactly when the insert was
\* attempted and its response holds inserted rows; an insert that returns
\* nothing gives False; an exception of the insert is caught, logged at error
\* level and turned into False, never raised to the caller.
Inv_C15_StoreTrueIffRows ==
    Done("store_knowledge_base_article") =>
        LET r == call.result
            inserts == RemoteCalls("table.insert.execute")
        IN /\ r.kind = "return"
           /\ r.val \in BOOLEAN
           /\ r.val <=> /\ Len(inserts) = 1
                         /\ inserts[1].response.kind = "data"
                         /\ Len(inserts[1].response.data) > 0
           /\ Len(inserts) = 1 /\ inserts[1].response.kind = "raise" =>
                  /\ r.val = FALSE
                  /\ r.log[Len(r.log)].level = "ERROR"
                  /\ r.log[Len(r.log)].args.e = inserts[1].response.detail

\* the insert raised and the caller got False
Wit_C15_InsertRaised ==
    /\ Done("store_knowledge_base_article")
    /\ Len(RemoteCalls("table.insert.execute")) = 1
    /\ RemoteCalls("table.insert.execute")[1].response.kind = "raise"
    /\ call.result.kind = "return"
    /\ call.result.val = FALSE

\* C16: save_interaction_summary never raises and returns True exactly when
\* its one insert into interaction_summaries returned rows; it returns False
\* without an insert when the store client was not created, and False when
\* the insert returned nothing or raised; the row holds the summary as given,
\* the empty one included, and the insert is the only remote call.
Inv_C16_SaveTrueIffRows ==
    Done("summarize_interaction_for_next_session") =>
        LET r == call.result.driver
            inserts == RemoteCalls("table.insert.execute")
        IN /\ r.kind = "return"
           /\ r.val \in BOOLEAN
           /\ ~supabase => r.val = FALSE /\ r.remote = <<>>
           /\ supabase =>
                  /\ r.remote = inserts
                  /\ Len(inserts) = 1
                  /\ inserts[1].table = "interaction_summaries"
                  /\ inserts[1].row =
                         [user_id |-> call.ctx.participant.identity,
                          session_id |-> IF call.ctx.room = PyNone THEN "unknown_session"
                                         ELSE call.ctx.room.sid,
                          summary |-> call.args.interaction_summary]
           /\ r.val <=> /\ Len(inserts) = 1
                         /\ inserts[1].response.kind = "data"
                         /\ Len(inserts[1].response.data) > 0

\* an empty summary was inserted and saved
Wit_C16_EmptySummarySaved ==
    /\ Done("summarize_interaction_for_next_session")
    /\ call.args.interaction_summary = ""
    /\ call.result.driver.val = TRUE
    /\ RemoteCalls("table.insert.execute")[1].row.summary = ""
    /\ \E row \in BagToSet(interaction_summaries) : row.summary = ""

\* C17: saving a summary is not idempotent: every save the store answers
\* with the inserted row adds one row to interaction_summaries, also when a
\* row with the same user, session and text is already there.
Inv_C17_EverySaveAddsARow ==
    [][call.state = "pending" /\ call.op = "summarize_interaction_for_next_session"
          /\ call'.state = "done" /\ call'.result.driver.val = TRUE =>
          LET row == [user_id |-> call.ctx.participant.identity,
                      session_id |-> IF call.ctx.room = PyNone THEN "unknown_session"
                                     ELSE call.ctx.room.sid,
                      summary |-> call.args.interaction_summary]
          IN /\ CopiesIn(row, interaction_summaries') =
                    CopiesIn(row, interaction_summaries) + 1
             /\ BagCardinality(interaction_summaries') =
                    BagCardinality(interaction_summaries) + 1]_vars

\* the same summary saved twice: two equal rows are stored
Wit_C17_TwoEqualRows ==
    /\ Done("summarize_interaction_for_next_session")
    /\ call.result.driver.val = TRUE
    /\ \E row \in BagToSet(interaction_summaries) :
           /\ CopiesIn(row, interaction_summaries) = 2
           /\ row.summary = call.args.interaction_summary
           /\ row.user_id = call.ctx.participant.identity

\* the token request was answered
Answered == http.state = "responded"

KeysConfigured == LIVEKIT_API_KEY \notin {"<None>", ""} /\ LIVEKIT_API_SECRET \notin {"<None>", ""}

\* C18: a token request whose identity token is invalid or expired
\* (verify_id_token raises InvalidIdTokenError or a subclass) is answered
\* with 401; one whose verification raises anything else is answered with
\* 500; in both cases no token is signed and none is in the response.
Inv_C18_RejectedVerification ==
    Answered /\ http.verification.kind = "raise" =>
        /\ http.response.status_code =
               IF http.verification.type \in {"InvalidIdTokenError", "ExpiredIdTokenError"}
               THEN 401 ELSE 500
        /\ http.signed = <<>>
        /\ DOMAIN http.response.body = {"detail"}

\* an expired token on a server that could sign
Wit_C18_ExpiredToken ==
    /\ Answered
    /\ KeysConfigured
    /\ http.verification.kind = "raise"
    /\ http.verification.type = "ExpiredIdTokenError"
    /\ http.response.status_code = 401

\* C19 (as claimed): a request whose token verifies but holds no uid claim
\* is answered with 400, and no token is issued.
Claim_C19_NoUidIsBadRequest ==
    Answered /\ http.verification.kind = "decoded"
        /\ "uid" \notin DOMAIN http.verification.claims =>
        /\ http.response.status_code = 400
        /\ http.signed = <<>>

\* C19 (amended): a request whose token verifies but holds no uid claim (or
\* an empty one) gets no token; it is answered with 400 when the signing key
\* pair is configured, and with 500 when the key or the secret is missing.
Inv_C19_NoUidNoToken ==
    Answered /\ http.verification.kind = "decoded"
        /\ ("uid" \notin DOMAIN http.verification.claims
            \/ http.verification.claims.uid = "") =>
        /\ http.response.status_code = IF KeysConfigured THEN 400 ELSE 500
        /\ http.signed = <<>>
        /\ DOMAIN http.response.body = {"detail"}

Wit_C19_NoUidWithKeys ==
    /\ Answered
    /\ KeysConfigured
    /\ http.verification.kind = "decoded"
    /\ "uid" \notin DOMAIN http.verification.claims
    /\ "name" \in DOMAIN http.verification.claims
    /\ http.response.status_code = 400

\* C20: every token the endpoint issues grants room-join, publish and
\* subscribe, all true, for exactly the room name of the request (the empty
\* one included); its identity is the verified uid, its display name the
\* name claim, or the uid when there is no name; it is returned with user_id
\* equal to the uid; and with any other request body the grants are the same
\* three, all true.
Inv_C20_IssuedTokenGrants ==
    Answered /\ (http.signed # <<>> \/ http.response.status_code = 200) =>
        LET claims == http.verification.claims
            jwt == http.signed[1]
        IN /\ Len(http.signed) = 1
           /\ http.response.status_code = 200
           /\ http.response.body = [livekit_token |-> jwt, user_id |-> claims.uid]
           /\ jwt.grants = [room_join |-> TRUE, room |-> http.token_request.room_name,
                             can_publish |-> TRUE, can_subscribe |-> TRUE]
           /\ jwt.identity = claims.uid
           /\ claims.uid # ""
           /\ jwt.name = IF "name" \in DOMAIN claims /\ claims.name # ""
                          THEN claims.name ELSE claims.uid
           /\ \A other \in TokenRequests :
                  LET again == generate_livekit_token_endpoint(
                                   LIVEKIT_API_KEY, LIVEKIT_API_SECRET, other, claims,
                                   [kind |-> "signed"])
                  IN /\ Len(again.signed) = 1
                     /\ again.signed[1].grants =
                            [jwt.grants EXCEPT !.room = other.room_name]

\* a token for the empty room name, for a user without a name claim
Wit_C20_EmptyRoomNoName ==
    /\ Answered
    /\ http.response.status_code = 200
    /\ http.token_request.room_name = ""
    /\ "name" \notin DOMAIN http.verification.claims
    /\ http.signed[1].grants.room = ""
    /\ http.signed[1].name = http.verification.claims.uid

\* C21 (as claimed): with the signing key pair missing, no request is
\* answered with an error response that the missing keys produce for that
\* request.
Claim_C21_NoPerRequestKeyError ==
    Answered /\ ~KeysConfigured =>
        http.response.body # [detail |-> <<"LiveKit API key/secret not configured on server.">>]

\* C21 (amended): a missing key or secret does not stop the service; each
\* request whose identity token verifies is then answered with 500 and the
\* detail 'LiveKit API key/secret not configured on server.', and no token
\* is signed; a request whose verification fails is answered as with keys.
Inv_C21_MissingKeysPerRequest500 ==
    Answered /\ ~KeysConfigured =>
        /\ http.signed = <<>>
        /\ http.verification.kind = "decoded" =>
               /\ http.response.status_code = 500
               /\ http.response.body =
                      [detail |-> <<"LiveKit API key/secret not configured on server.">>]
        /\ http.verification.kind = "raise" =>
               /\ http.response.status_code \in {401, 500}
               /\ http.response.body #
                      [detail |-> <<"LiveKit API key/secret not configured on server.">>]

\* a valid token with uid, on a server with a key but an empty secret
Wit_C21_ValidTokenNoSecret ==
    /\ Answered
    /\ LIVEKIT_API_KEY = "devkey"
    /\ LIVEKIT_API_SECRET = ""
    /\ http.verification.kind = "decoded"
    /\ "uid" \in DOMAIN http.verification.claims
    /\ http.verification.claims.uid = "uid-1"
    /\ http.response.status_code = 500

\* C22: the module-level handles (the store client, the embedding client,
\* the signing key and secret) are set at process start and no step of any
\* data-access function, tool operation or token request changes them,
\* whether the step succeeds or fails.
Inv_C22_HandlesNeverChange ==
    [][/\ supabase' = supabase
       /\ openai_client' = openai_client
       /\ LIVEKIT_API_KEY' = LIVEKIT_API_KEY
       /\ LIVEKIT_API_SECRET' = LIVEKIT_API_SECRET]_vars

\* a save failed on a raising insert and the store client is still there
Wit_C22_ClientKeptAfterFailure ==
    /\ Done("summarize_interaction_for_next_session")
    /\ Len(RemoteCalls("table.insert.execute")) = 1
    /\ RemoteCalls("table.insert.execute")[1].response.kind = "raise"
    /\ call.result.driver.val = FALSE
    /\ supabase

\* C23 (as claimed): an operation suspends, and lets other operations of
\* the process run, at each of its network calls, and nowhere else.
Claim_C23_SuspendsAtNetworkCalls ==
    call.state = "done" =>
        \A i \in 1..Len(call.result.remote) : call.result.remote[i].awaited

\* what the remote ends answered to the calls of turn t, in order
Responses(t) ==
    [i \in 1..Len(turns[t].result.remote) |-> turns[t].result.remote[i].response]

\* the behaviour of the remote ends as turn t's own calls show it; a call
\* that was not made has no behaviour, and any stands in for it
OwnEnv(t) ==
    LET remote == turns[t].result.remote
        Of(api) == SelectSeq(remote, LAMBDA c : c.api = api)
        Resp(api, default) == IF Len(Of(api)) = 0 THEN default ELSE Of(api)[1].response
        ins == Resp("table.insert.execute", [kind |-> "data", data |-> <<>>])
    IN [lookup |-> Resp("table.select.eq.maybe_single.execute",
                        [kind |-> "data", data |-> PyNone]),
        embed |-> Resp("embeddings.create", [kind |-> "data"]),
        rpc |-> Resp("rpc.execute", [kind |-> "data", data |-> <<>>]),
        insert |-> IF ins.kind = "raise" THEN ins
                   ELSE [kind |-> "data", rows |-> Len(ins.data) > 0]]

\* the invocation of turn t with nothing of its context but the identity
OwnCall(t) ==
    [op |-> turns[t].op, args |-> turns[t].args,
     ctx |-> [participant |-> [identity |-> turns[t].ctx.participant.identity],
              room |-> PyNone]]

\* C24: tool invocations of different turns in flight together do not
\* influence each other: in whatever order they run, the str each returns is
\* the one the tool gives, run alone, for that invocation's participant
\* identity and arguments and the responses to its own remote calls; two
\* invocations that agree on these return the same str.
Inv_C24_TurnsIndependent ==
    /\ \A t \in TurnIds :
           turns[t].state = "done" =>
               /\ turns[t].result.ended = "return"
               /\ turns[t].result.ret =
                      ToolResult(supabase, openai_client, OwnCall(t), OwnEnv(t)).ret
    /\ \A t, u \in TurnIds :
           /\ turns[t].state = "done" /\ turns[u].state = "done"
           /\ turns[t].op = turns[u].op
           /\ turns[t].args = turns[u].args
           /\ turns[t].ctx.participant.identity = turns[u].ctx.participant.identity
           /\ Responses(t) = Responses(u)
           => turns[t].result.ret = turns[u].result.ret

\* both turns asked the knowledge base the same question for the same
\* participant; one search found an article, the other raised
Wit_C24_SameQuestionTwoAnswers ==
    /\ turns["turn_a"].state = "done" /\ turns["turn_b"].state = "done"
    /\ turns["turn_a"].op = "answer_from_company_kb"
    /\ turns["turn_b"].op = "answer_from_company_kb"
    /\ turns["turn_a"].args = turns["turn_b"].args
    /\ turns["turn_a"].ctx = turns["turn_b"].ctx
    /\ Len(turns["turn_a"].result.remote) = 2
    /\ turns["turn_a"].result.remote[2].response.kind = "raise"
    /\ turns["turn_b"].result.driver.val # PyNone
    /\ turns["turn_a"].result.ret # turns["turn_b"].result.ret

\* the log messages of generate_embedding
EmbeddingMessages ==
    {"OpenAI client not initialized. Cannot generate embedding.",
     "generate_embedding received empty or invalid text.",
     "OpenAI API error during embedding generation: {e}",
     "Successfully generated embedding for text: {processed_text[:50]}..."}

\* the entries a log holds of the data-access function itself: each call of
\* one writes exactly one, on whichever branch it leaves
DriverEntries(log) ==
    {i \in 1..Len(log) : log[i].logger = "db_driver" /\ log[i].msg \notin EmbeddingMessages}

StoreApis == {"table.select.eq.maybe_single.execute", "rpc.execute", "table.insert.execute"}

\* the calls to the remote store a finished invocation made
StoreCalls == SelectSeq(call.result.remote, LAMBDA c : c.api \in StoreApis)

\* C25: a tool invocation calls its data-access function exactly once, with
\* the participant identity (lookup), the query (search) or user, session and
\* summary (save), and nothing is tried again after a failure; a data-access
\* function makes at most one call to the store and at most one to the
\* embedding API.
Inv_C25_OneCallNoRetry ==
    call.state = "done" =>
        LET r == call.result
            embeds == RemoteCalls("embeddings.create")
        IN /\ Len(StoreCalls) <= 1
           /\ Len(embeds) <= 1
           /\ Len(r.remote) = Len(StoreCalls) + Len(embeds)
           /\ \A i \in 1..Len(r.remote) :
                  r.remote[i].response.kind = "raise" => i = Len(r.remote)
           /\ call.op \in ToolOps =>
                  /\ Cardinality(DriverEntries(r.log)) = 1
                  /\ r.driver.log = SubSeq(r.log, 2, Len(r.log) - 1)
           /\ call.op = "get_user_account_info" /\ Len(StoreCalls) = 1 =>
                  /\ StoreCalls[1].api = "table.select.eq.maybe_single.execute"
                  /\ StoreCalls[1].eq = <<"user_id", call.ctx.participant.identity>>
           /\ call.op = "answer_from_company_kb" =>
                  /\ Len(embeds) = 1 =>
                         embeds[1].input = SelectSeq(call.args.query, LAMBDA c : c # "\\x00")
                  /\ Len(StoreCalls) = 1 => StoreCalls[1].api = "rpc.execute"
           /\ call.op = "summarize_interaction_for_next_session" /\ Len(StoreCalls) = 1 =>
                  /\ StoreCalls[1].api = "table.insert.execute"
                  /\ StoreCalls[1].row.user_id = call.ctx.participant.identity
                  /\ StoreCalls[1].row.summary = call.args.interaction_summary

\* a search whose similarity search raised: one embedding call, one store
\* call, and no second attempt
Wit_C25_FailedSearchNotRetried ==
    /\ Done("answer_from_company_kb")
    /\ Len(call.result.remote) = 2
    /\ Len(StoreCalls) = 1
    /\ StoreCalls[1].response.kind = "raise"
    /\ Cardinality(DriverEntries(call.result.log)) = 1

\* C26 (as claimed): for every empty or whitespace-only text given to
\* generate_embedding the failure is logged at warning level, not at error
\* level, and None is returned without raising.
Claim_C26_BlankTextLogsWarning ==
    Done("generate_embedding") /\ IsBlank(call.args.text) =>
        /\ call.result.kind = "return"
        /\ call.result.val = PyNone
        /\ CountLog(call.result.log, "db_driver", "WARNING") = 1
        /\ CountLog(call.result.log, "db_driver", "ERROR") = 0

\* C26 (amended): for every empty or whitespace-only text generate_embedding
\* returns None without raising; with the embedding client created it logs
\* one entry, at warning level, and none at error level; without the client
\* the text is not looked at and the one entry is the not-initialized error.
Inv_C26_BlankTextSoftFailure ==
    Done("generate_embedding") /\ IsBlank(call.args.text) =>
        /\ call.result.kind = "return"
        /\ call.result.val = PyNone
        /\ Len(call.result.log) = 1
        /\ CountLog(call.result.log, "db_driver", "WARNING") = (IF openai_client THEN 1 ELSE 0)
        /\ CountLog(call.result.log, "db_driver", "ERROR") = (IF openai_client THEN 0 ELSE 1)

\* the empty text, with the client created: one warning
Wit_C26_EmptyTextWarning ==
    /\ Done("generate_embedding")
    /\ openai_client
    /\ call.args.text = <<>>
    /\ call.result.log[1].level = "WARNING"

\* C27 (as claimed): the record store_knowledge_base_article sends to its
\* insert has title, content and embedding equal to the title argument, the
\* content argument and the embedding computed from content; metadata adds
\* fields and replaces none of the three.
Claim_C27_MetadataOnlyAdds ==
    Done("store_knowledge_base_article") /\ Len(RemoteCalls("table.insert.execute")) = 1 =>
        LET row == RemoteCalls("table.insert.execute")[1].row
        IN /\ row.title = call.args.title
           /\ row.content = call.args.content
           /\ row.embedding = RemoteCalls("embeddings.create")[1].response.embedding

\* the decoded token of an answered request has a non-empty uid
UidPresent ==
    /\ "uid" \in DOMAIN http.verification.claims
    /\ http.verification.claims.uid # ""

\* the first failure decides the answer: verification, then the signing
\* keys, then the uid, then the signing
FirstFailureAnswers ==
    Answered =>
        IF http.verification.kind = "raise"
        THEN /\ http.response.status_code \in {401, 500}
             /\ http.response.body.detail[1] \in
                    {"Invalid Firebase ID token", "Error verifying Firebase ID token: "}
             /\ http.signed = <<>>
        ELSE IF ~KeysConfigured
        THEN /\ http.response.status_code = 500
             /\ http.response.body.detail[1] = "LiveKit API key/secret not configured on server."
             /\ http.signed = <<>>
        ELSE IF ~UidPresent
        THEN /\ http.response.status_code = 400
             /\ http.response.body.detail[1] = "UID not found in Firebase token."
             /\ http.signed = <<>>
        ELSE \/ /\ http.response.status_code = 500
                /\ http.response.body.detail[1] = "Could not generate LiveKit token: "
                /\ http.signed = <<>>
             \/ /\ http.response.status_code = 200
                /\ http.signed = <<http.response.body.livekit_token>>

\* a token is signed only by the step that follows a successful
\* verification of the same request
SignedAfterVerified ==
    http'.state = "responded" /\ http'.signed # <<>> =>
        /\ http.state = "verified"
        /\ http.token_request = http'.token_request
        /\ http.verification.kind = "decoded"
        /\ http'.verification = http.verification

\* C28: the token endpoint answers with the first failure in the order
\* verification (401 or 500), signing-key configuration (500), missing uid
\* (400), signing (500); a token is signed only in a request whose earlier
\* steps all succeeded, after the successful verification of that request.
Inv_C28_FixedOrderFirstFailure ==
    /\ []FirstFailureAnswers
    /\ [][SignedAfterVerified]_vars

\* a verified request without keys and without uid: the key check answers
Wit_C28_KeysBeforeUid ==
    /\ Answered
    /\ http.verification.kind = "decoded"
    /\ ~KeysConfigured
    /\ ~UidPresent
    /\ http.response.status_code = 500
    /\ http.steps = <<"verify", "keys">>

\* C29: a tool invocation acts on the identity of its own participant only:
\* the account lookup selects exactly ctx.participant.identity, the summary
\* is saved under exactly that identity and under the sid of the room, or
\* under 'unknown_session' when the context has no room; this holds for every
\* argument the model supplies, so no argument changes the identity used.
Inv_C29_OwnIdentityOnly ==
    Done("get_user_account_info") \/ Done("summarize_interaction_for_next_session") =>
        LET own == call.ctx.participant.identity
            selects == RemoteCalls("table.select.eq.maybe_single.execute")
            inserts == RemoteCalls("table.insert.execute")
        IN /\ \A i \in 1..Len(selects) :
                  /\ selects[i].table = "user_profiles"
                  /\ selects[i].eq = <<"user_id", own>>
           /\ \A i \in 1..Len(inserts) :
                  /\ inserts[i].table = "interaction_summaries"
                  /\ inserts[i].row.user_id = own
                  /\ inserts[i].row.session_id =
                         (IF call.ctx.room = PyNone THEN "unknown_session" ELSE call.ctx.room.sid)
           /\ call.op = "get_user_account_info" => inserts = <<>>
           /\ call.op = "summarize_interaction_for_next_session" => selects = <<>>
           /\ supabase => Len(selects) + Len(inserts) = 1

\* a summary saved for user_b in a room: the row carries user_b and the sid
Wit_C29_SummaryUnderOwnIdentity ==
    /\ Done("summarize_interaction_for_next_session")
    /\ call.ctx = [participant |-> [identity |-> "user_b"], room |-> [sid |-> "RM_1"]]
    /\ Len(RemoteCalls("table.insert.execute")) = 1
    /\ RemoteCalls("table.insert.execute")[1].row.user_id = "user_b"
    /\ RemoteCalls("table.insert.execute")[1].row.session_id = "RM_1"
    /\ call.result.ended = "return"
    /\ call.result.ret = SummarySavedText

\* the titles of the calls made so far are the first titles of the list
AttemptedInListOrder ==
    seeding.state # "idle" =>
        /\ seeding.i = Len(seeding.attempted)
        /\ seeding.i <= Len(SAMPLE_ARTICLES)
        /\ \A k \in 1..Len(seeding.attempted) :
               seeding.attempted[k].title = SAMPLE_ARTICLES[k].title
        /\ seeding.successful_uploads + seeding.failed_uploads = Len(seeding.attempted)

\* at completion every article was attempted and counted
CompleteAfterAll ==
    seeding.state = "complete" =>
        /\ Len(seeding.attempted) = Len(SAMPLE_ARTICLES)
        /\ seeding.successful_uploads + seeding.failed_uploads = Len(SAMPLE_ARTICLES)

\* a step of the run attempts exactly the next article, whatever the
\* earlier attempts ended with, or completes; a completed run stays so
OneAttemptPerStep ==
    seeding.state = "running" /\ seeding' # seeding =>
        \/ /\ seeding'.state = "running"
           /\ Len(seeding'.attempted) = Len(seeding.attempted) + 1
           /\ SubSeq(seeding'.attempted, 1, Len(seeding.attempted)) = seeding.attempted
        \/ /\ seeding'.state = "complete"
           /\ seeding'.attempted = seeding.attempted

\* C30: the seeding run always terminates, after attempting every sample
\* article exactly once and in list order; a False result, a DBDriverError
\* or another exception for one article does not stop the later ones, and
\* at completion successful_uploads + failed_uploads is the number of
\* sample articles.
Inv_C30_SeedingTerminatesAllAttempted ==
    /\ []AttemptedInListOrder
    /\ []CompleteAfterAll
    /\ [][OneAttemptPerStep]_vars
    /\ <>(seeding.state = "complete")

\* a run in which the first article raised DBDriverError, the second was
\* answered False, the third raised another exception, the last was stored
Wit_C30_FailuresThenStored ==
    /\ seeding.state = "complete"
    /\ seeding.attempted[1].ended = "raise"
    /\ seeding.log[2].msg = "DBDriverError while storing article '{title}': {e}"
    /\ seeding.log[3].level = "WARNING"
    /\ seeding.log[4].msg = "An unexpected error occurred while storing article '{title}': {e}"
    /\ seeding.log[5].msg = "Successfully stored article: '{title}'"
    /\ seeding.successful_uploads = 1
    /\ seeding.failed_uploads = 3
    /\ BagCardinality(knowledge_articles) = 1

====
